---- MODULE Spec2Model ----
(***************************************************************************)
(* Model of the run orchestrator of web-codegen-scorer:                    *)
(* generateCodeAndAssess (runner/orchestration/generate.ts), the per-prompt*)
(* retry loop and evaluate() wrapper, the two PQueue pools, the run-level  *)
(* cleanup and the abort listener.                                         *)
(***************************************************************************)
EXTENDS Integers, Sequences, FiniteSets, TLC

\* ---------------------------------------------------------------------
\* Bounds of the model
\* ---------------------------------------------------------------------
MaxPrompts == 2
MaxRetries == 1
MaxSteps == 2
MaxName == 2
MaxConcurrency == 2
MaxParallelism == 3
MaxCatalog == 3
MaxRatings == 3
MaxEntities == 3
MaxCallers == 4
MaxAttemptDetails == 2
MaxAnalysisPrompts == 2
MaxEvaluations == 2

VARIABLES
  options,          \* AssessmentConfig: promptTimeoutRetries, concurrency
  parallelism,      \* os.availableParallelism()
  promptsToProcess, \* candidates after filtering and slice(0, limit)
  pc,               \* position of generateCodeAndAssess
  pending,          \* what the try block produced: "none", "RunInfo" or the error thrown
  settled,          \* how the returned promise settled: "no", "returned", or the rejection
  results,          \* RunInfo.results
  callerAborted,    \* options.abortSignal.aborted
  listenerOn,       \* the 'abort' listener is registered on options.abortSignal
  listenerPc,       \* position of the cleanup() started by the abort listener
  allTasksAborted,  \* allTasksAbortCtrl.signal.aborted
  extraCleanupFns,  \* number of functions pushed to extraCleanupFns
  envDestroyCalls,  \* calls of env.destroy()
  cleanupFnCalls,   \* calls of the functions of extraCleanupFns
  job,              \* per scheduled prompt: the outer-pool unit
  failedPrompts,    \* CompletionStats.failedPrompts
  initCalls,        \* EvalIDs returned by initializeEval
  finalizeCalls,    \* EvalID -> number of finalizeEval(evalID) calls
  workerQueue,      \* workerConcurrencyQueue: operations waiting for a slot
  workerActive,     \* workerConcurrencyQueue: operations holding a slot
  abortedEarly,     \* history: the caller's signal fired before any unit had completed
  input,            \* arguments of the configuration-resolution function under study
  output,           \* its working value and, at the end, its result
  phase,            \* its position
  idx               \* its loop index

runVars == <<options, parallelism, promptsToProcess, pc, pending, settled, results,
          callerAborted, listenerOn, listenerPc, allTasksAborted, extraCleanupFns,
          envDestroyCalls, cleanupFnCalls, job, failedPrompts, initCalls,
          finalizeCalls, workerQueue, workerActive, abortedEarly>>

callVars == <<input, output, phase, idx>>

vars == <<runVars, callVars>>

\* ---------------------------------------------------------------------
\* Inputs
\* ---------------------------------------------------------------------
\* An optional number is <<>> (undefined) or <<n>>.
RetryValues == {<<>>} \cup {<<k>> : k \in (-1)..MaxRetries}

ConcurrencyValues ==
  {[auto |-> TRUE, value |-> 0]} \cup {[auto |-> FALSE, value |-> c] : c \in 1..MaxConcurrency}

SeqsUpTo(S, n) == UNION {[1..m -> S] : m \in 0..n}

\* Strings are sequences of UTF-16 code units.  Names of prompts: 'a',
\* 'a-step-1x', 'b'.
NameList == << <<97>>, <<97, 45, 115, 116, 101, 112, 45, 49, 120>>, <<98>> >>

RootPromptNames ==
  {NameList[n] : n \in 1..(IF MaxName < Len(NameList) THEN MaxName ELSE Len(NameList))}

\* Numbers in the file names of steps: step-1, step-2, step-10.
StepNumbers == {1, 2, 10}

\* The step numbers of a multi-step prompt, in the order getMultiStepPrompt
\* returns its steps (runner-creation.ts line 649): ascending.  Two files may
\* carry the same number (step-2 and step-02): both steps are returned, with
\* the same name and number.
StepLists ==
  {steps \in UNION {[1..m -> StepNumbers] : m \in 1..MaxSteps} :
     \A i, k \in 1..Len(steps) : i < k => steps[i] <= steps[k]}

\* A root prompt definition: a single prompt, or a multi-step prompt with the
\* numbers of its steps.
PromptDefs ==
  [name : RootPromptNames, kind : {"single"}, steps : {<<>>}]
    \cup [name : RootPromptNames, kind : {"multi-step"}, steps : StepLists]

\* The catalogue the runs are drawn from: every single prompt, and the
\* multi-step prompt of the first name with MaxSteps steps of different
\* numbers, the highest ones.
RunPromptDefs ==
  LET Different(steps) == \A i, k \in 1..Len(steps) : i < k => steps[i] < steps[k]
  IN {def \in PromptDefs :
        \/ def.kind = "single"
        \/ /\ def.name = NameList[1]
           /\ Len(def.steps) = MaxSteps
           /\ Different(def.steps)
           /\ \A steps \in StepLists :
                (Len(steps) = MaxSteps /\ Different(steps)) => steps[1] <= def.steps[1]}

Jobs == 1..Len(promptsToProcess)

EvalIDs == Jobs \X (0..MaxRetries)

\* ---------------------------------------------------------------------
\* Pure helpers
\* ---------------------------------------------------------------------
\* (options.promptTimeoutRetries ?? 0) + 1
MaxAttempts(opts) ==
  (IF opts.promptTimeoutRetries = <<>> THEN 0 ELSE opts.promptTimeoutRetries[1]) + 1

\* Bug variant of AppConcurrency: the product is rounded up.
AppConcurrency_RoundedUp(opts, par) ==
  IF opts.concurrency.auto THEN (par * 8 + 9) \div 10 ELSE opts.concurrency.value

\* options.concurrency === 'auto' ? Math.floor(availableParallelism() * 0.8) : options.concurrency
AppConcurrency(opts, par) ==
  IF opts.concurrency.auto THEN (par * 8) \div 10 ELSE opts.concurrency.value

\* Whether the inner pool is bounded, and its bound: floor(appConcurrency * 0.5) or Infinity.
WorkerBounded(opts) == opts.concurrency.auto

\* Bug variant of WorkerConcurrency: the inner pool is as large as the outer one.
WorkerConcurrency_NoHalving(opts, par) == AppConcurrency(opts, par)

WorkerConcurrency(opts, par) == AppConcurrency(opts, par) \div 2

\* new PQueue({concurrency}) throws unless concurrency is a number >= 1 (Infinity included).
QueuesConstructible(opts, par) ==
  /\ AppConcurrency(opts, par) >= 1
  /\ WorkerBounded(opts) => WorkerConcurrency(opts, par) >= 1

\* Bug variant of HasNoPrompts: the emptiness check is missing.
HasNoPrompts_Never(prompts) == FALSE

\* promptsToProcess.length === 0   (line 118)
HasNoPrompts(prompts) == Len(prompts) = 0

\* Bug variant of OuterHasRoom: one unit too many is admitted.
OuterHasRoom_OffByOne(running, concurrency) == running <= concurrency

\* The outer PQueue starts a unit only while fewer than `concurrency` are pending.
OuterHasRoom(running, concurrency) == running < concurrency

\* String(n) for a natural number.
RECURSIVE Digits(_)
Digits(n) == IF n < 10 THEN <<48 + n>> ELSE Digits(n \div 10) \o <<48 + (n % 10)>>

\* '-step-'
StepInfix == <<45, 115, 116, 101, 112, 45>>

\* rootPromptDef.kind === 'single' ? [rootPromptDef] : rootPromptDef.steps
\* (index.ts line 105), as the names of the definitions: a step is named
\* `${name}-step-${stepNum}` (runner-creation.ts line 635).
DefsToExecute(def) ==
  IF def.kind = "single"
  THEN <<def.name>>
  ELSE [s \in 1..Len(def.steps) |-> def.name \o StepInfix \o Digits(def.steps[s])]

\* promptDef.name of the s-th definition executed (index.ts line 241).
ResultName(def, s) == DefsToExecute(def)[s]

\* a.localeCompare(b): negative, zero or positive.  For names of lower-case
\* letters, digits and hyphens the collation compares character by character,
\* hyphen before digits before letters, a proper prefix first, which is the
\* order of the code units.
RECURSIVE LocaleCompare(_, _)
LocaleCompare(a, b) ==
  IF a = <<>> THEN (IF b = <<>> THEN 0 ELSE -1)
  ELSE IF b = <<>> THEN 1
  ELSE IF a[1] # b[1] THEN (IF a[1] < b[1] THEN -1 ELSE 1)
  ELSE LocaleCompare(Tail(a), Tail(b))

\* The AssessmentResult list startEvaluationTask returns after n completed steps.
TaskResults(j, n) ==
  [s \in 1..n |-> [name |-> ResultName(promptsToProcess[j], s), job |-> j, step |-> s]]

RECURSIVE Flat(_, _)
\* (await Promise.all(allTasks)).flat(): the lists in scheduling order.
Flat(lists, n) == IF n = 0 THEN <<>> ELSE Flat(lists, n - 1) \o lists[n]

\* Position at which insertion keeps equal names in their incoming order.
RECURSIVE InsertSorted(_, _)
InsertSorted(sorted, x) ==
  IF sorted = <<>> THEN <<x>>
  ELSE IF LocaleCompare(sorted[Len(sorted)].name, x.name) <= 0 THEN Append(sorted, x)
  ELSE Append(InsertSorted(SubSeq(sorted, 1, Len(sorted) - 1), x), sorted[Len(sorted)])

RECURSIVE SortPrefix(_, _)
SortPrefix(list, n) ==
  IF n = 0 THEN <<>> ELSE InsertSorted(SortPrefix(list, n - 1), list[n])

\* Bug variant of SortByName: the comparator's operands are swapped.
SortByName_Descending(list) ==
  LET sorted == SortPrefix(list, Len(list))
  IN [i \in 1..Len(sorted) |-> sorted[Len(sorted) + 1 - i]]

\* Array.prototype.sort with the localeCompare comparator (a stable sort).
SortByName(list) == SortPrefix(list, Len(list))

\* ---------------------------------------------------------------------
\* State-derived helpers
\* ---------------------------------------------------------------------
RunningPcs == {"init", "setup", "gen", "build", "rate", "cleanup", "finalize"}

\* PQueue pending count of appConcurrencyQueue.
Running == {j \in Jobs : job[j].pc \in RunningPcs}

Queued == {j \in Jobs : job[j].pc = "queued"}

CurrentEval(j) == <<j, job[j].attemptIdx>>

\* combineAbortSignals(allTasksAbortCtrl.signal, timeoutAbortSignal, options.abortSignal)
CombinedSignalAborted(allTasks, timeout, caller) == allTasks \/ timeout \/ caller

\* The abortSignal argument of prepareSummary, handed on to summarizeReportWithAI
\* and chatWithReportAI: allTasksAbortCtrl.signal   (part_002 line 257)
SummarySignalAborted(allTasks, caller) == allTasks

WorkerHasRoom ==
  WorkerBounded(options) => Cardinality(workerActive) < WorkerConcurrency(options, parallelism)

\* PQueue.add on the inner pool: run at once when a slot is free, else wait in FIFO order.
WorkerAdd(id) ==
  IF WorkerHasRoom
  THEN /\ workerActive' = workerActive \cup {id}
       /\ workerQueue' = workerQueue
  ELSE /\ workerQueue' = Append(workerQueue, id)
       /\ workerActive' = workerActive

\* attemptBuildAndTest hands its build/test operation to the inner pool.
SubmitHeavyOperation(id) == WorkerAdd(id)

\* An operation leaves the inner pool; the head of the queue takes the freed slot.
WorkerRelease(id) ==
  IF workerQueue # <<>>
  THEN /\ workerActive' = (workerActive \ {id}) \cup {Head(workerQueue)}
       /\ workerQueue' = Tail(workerQueue)
  ELSE /\ workerActive' = workerActive \ {id}
       /\ workerQueue' = workerQueue

\* The pcs at which a call of startEvaluationTask is awaiting an operation.
TaskPcs == {"setup", "gen", "build", "rate", "cleanup"}

\* The unit of one prompt.  project, cleanups, exit and sawAbort describe the
\* attempt in progress, i.e. the current call of startEvaluationTask: whether
\* setupProjectStructure has resolved, how often the cleanup() it returned has
\* been called, which `await cleanup()` is pending ("break": the one before a
\* break, "afterBreak": line 257 after a break, "return": line 257 after the
\* last step), and whether the caller's signal fired while the call was
\* executing.  They are discarded with the attempt.  left holds the calls of
\* startEvaluationTask that a timeout has left behind and that are still
\* running: for each its attempt, the operation it is awaiting, its step and
\* its pending `await cleanup()`.
InitJob ==
  [pc |-> "idle", attemptIdx |-> 0, step |-> 1, outcome |-> "none", res |-> <<>>,
   project |-> FALSE, cleanups |-> 0, sawAbort |-> FALSE, exit |-> "none", left |-> {}]

\* ---------------------------------------------------------------------
\* Initial state: generateCodeAndAssess has resolved the environment and
\* registered the abort listener (lines 46-78).
\* ---------------------------------------------------------------------
Start(opts, par, prompts, aborted) ==
  /\ options = opts
  /\ parallelism = par
  /\ promptsToProcess = prompts
  /\ pc = "validate"
  /\ pending = "none"
  /\ settled = "no"
  /\ results = <<>>
  /\ callerAborted = aborted
  /\ listenerOn = TRUE
  /\ listenerPc = "idle"
  /\ allTasksAborted = FALSE
  /\ extraCleanupFns = 0
  /\ envDestroyCalls = 0
  /\ cleanupFnCalls = 0
  /\ job = [j \in 1..Len(prompts) |-> InitJob]
  /\ failedPrompts = <<>>
  /\ initCalls = {}
  /\ finalizeCalls = [id \in (1..Len(prompts)) \X (0..MaxRetries) |-> 0]
  /\ workerQueue = <<>>
  /\ workerActive = {}
  /\ abortedEarly = aborted

\* No configuration-resolution function is under study.
NoCall ==
  /\ input = <<>>
  /\ output = <<>>
  /\ phase = "none"
  /\ idx = 0

\* A run of MaxPrompts single prompts of one name with MaxRetries retries for
\* each, a fixed concurrency and a signal that has not fired at the start.
RetriedPrompts(opts, prompts, aborted) ==
  /\ opts.promptTimeoutRetries = <<MaxRetries>>
  /\ ~opts.concurrency.auto
  /\ prompts = [j \in 1..MaxPrompts |-> [name |-> NameList[1], kind |-> "single",
                                          steps |-> <<>>]]
  /\ ~aborted

\* The runs studied: those whose inputs make for at most MaxEvaluations calls
\* of evaluate() (promptsToProcess.length units with up to MaxAttempts(options)
\* attempts each), and the runs of RetriedPrompts.
Init ==
  /\ NoCall
  /\ \E opts \in [promptTimeoutRetries : RetryValues, concurrency : ConcurrencyValues] :
       \E par \in (IF opts.concurrency.auto THEN 1..MaxParallelism ELSE {1}) :
         \E prompts \in SeqsUpTo(RunPromptDefs, MaxPrompts) :
           \E aborted \in BOOLEAN :
             /\ \/ Len(prompts) * MaxAttempts(opts) <= MaxEvaluations
                \/ RetriedPrompts(opts, prompts, aborted)
             /\ Start(opts, par, prompts, aborted)

\* ---------------------------------------------------------------------
\* generateCodeAndAssess: the try / catch / finally frame (lines 80-293)
\* ---------------------------------------------------------------------
\* Bug variant of ThrowFromTry: the catch clause does not abort the tasks.
ThrowFromTry_NoAbort(err) ==
  /\ allTasksAborted' = allTasksAborted
  /\ pending' = err
  /\ envDestroyCalls' = envDestroyCalls + 1
  /\ pc' = "destroying"

\* catch (e) { allTasksAbortCtrl.abort(); throw e; } finally { await cleanup(); ... }
\* cleanup() calls env.destroy() before its first suspension.
ThrowFromTry(err) ==
  /\ allTasksAborted' = TRUE
  /\ pending' = err
  /\ envDestroyCalls' = envDestroyCalls + 1
  /\ pc' = "destroying"

\* return {...} inside the try: the finally block runs before the promise settles.
ReturnFromTry ==
  /\ pending' = "RunInfo"
  /\ envDestroyCalls' = envDestroyCalls + 1
  /\ pc' = "destroying"
  /\ UNCHANGED allTasksAborted

\* Bug variant of RunsCleanupFns: an error of env.destroy() ends cleanup().
RunsCleanupFns_StopOnThrow(destroyThrew) == ~destroyThrew

\* Whether cleanup() goes on to the extra cleanup functions after env.destroy().
RunsCleanupFns(destroyThrew) == TRUE

\* What the promise of generateCodeAndAssess settles with once cleanup() is over.
SettleValue(produced, cleanupThrew) == IF produced = "RunInfo" THEN "returned" ELSE produced

\* End of the finally block: removeEventListener and settle.
Settle(cleanupThrew) ==
  /\ listenerOn' = FALSE
  /\ settled' = SettleValue(pending, cleanupThrew)
  /\ pc' = "end"

\* await assertValidModelName(options.model, env.executor)   (line 81)
Validate ==
  /\ pc = "validate"
  /\ \E valid \in BOOLEAN :
       IF valid
       THEN /\ pc' = "resolve"
            /\ UNCHANGED <<allTasksAborted, pending, envDestroyCalls>>
       ELSE ThrowFromTry("InvalidModel")
  /\ UNCHANGED <<options, parallelism, promptsToProcess, settled, results, callerAborted,
                 listenerOn, listenerPc, extraCleanupFns, cleanupFnCalls, job,
                 failedPrompts, initCalls, finalizeCalls, workerQueue, workerActive, abortedEarly>>
  /\ UNCHANGED callVars

\* Lines 83-123: resolve the prompts, construct the auxiliary runners, register
\* their disposal, and fail when there is nothing to process.
Resolve ==
  /\ pc = "resolve"
  /\ \E runnerOk \in BOOLEAN :
       IF ~runnerOk
       THEN /\ ThrowFromTry("RunnerCreation")
            /\ UNCHANGED extraCleanupFns
       ELSE /\ extraCleanupFns' = extraCleanupFns + 1
            /\ IF HasNoPrompts(promptsToProcess)
               THEN ThrowFromTry("NoPrompts")
               ELSE /\ pc' = "schedule"
                    /\ UNCHANGED <<allTasksAborted, pending, envDestroyCalls>>
  /\ UNCHANGED <<options, parallelism, promptsToProcess, settled, results, callerAborted,
                 listenerOn, listenerPc, cleanupFnCalls, job, failedPrompts, initCalls,
                 finalizeCalls, workerQueue, workerActive, abortedEarly>>
  /\ UNCHANGED callVars

\* Lines 125-238: after installChrome and startMcpServerHost (lines 133-139,
\* whose rejection fails the run), construct both queues and add one unit per
\* prompt to the outer pool.
Schedule ==
  /\ pc = "schedule"
  /\ \E mcpHostStarted \in BOOLEAN :
       IF ~mcpHostStarted
       THEN /\ ThrowFromTry("McpServerHost")
            /\ UNCHANGED job
       ELSE IF QueuesConstructible(options, parallelism)
       THEN /\ job' = [j \in Jobs |-> [job[j] EXCEPT !.pc = "queued"]]
            /\ pc' = "await"
            /\ UNCHANGED <<allTasksAborted, pending, envDestroyCalls>>
       ELSE /\ ThrowFromTry("InvalidConcurrency")
            /\ UNCHANGED job
  /\ UNCHANGED <<options, parallelism, promptsToProcess, settled, results, callerAborted,
                 listenerOn, listenerPc, extraCleanupFns, cleanupFnCalls, failedPrompts,
                 initCalls, finalizeCalls, workerQueue, workerActive, abortedEarly>>
  /\ UNCHANGED callVars

\* Lines 240-242: await Promise.all(allTasks), flatten and sort.  Promise.all
\* rejects as soon as one unit has rejected.
AwaitAll ==
  /\ pc = "await"
  /\ IF \E j \in Jobs : job[j].pc = "threw"
     THEN /\ ThrowFromTry("UnexpectedCodePath")
          /\ UNCHANGED results
     ELSE /\ \A j \in Jobs : job[j].pc = "done"
          /\ results' = SortByName(Flat([j \in Jobs |-> job[j].res], Len(promptsToProcess)))
          /\ pc' = "onEmpty"
          /\ UNCHANGED <<allTasksAborted, pending, envDestroyCalls>>
  /\ UNCHANGED <<options, parallelism, promptsToProcess, settled, callerAborted,
                 listenerOn, listenerPc, extraCleanupFns, cleanupFnCalls, job,
                 failedPrompts, initCalls, finalizeCalls, workerQueue, workerActive, abortedEarly>>
  /\ UNCHANGED callVars

\* await workerConcurrencyQueue.onEmpty() (line 245): the promise resolves
\* once no operation waits for a slot of the inner pool.  collectMcpServerLogs
\* and prepareSummary are awaited next.
OnEmpty ==
  /\ pc = "onEmpty"
  /\ workerQueue = <<>>
  /\ pc' = "summary"
  /\ UNCHANGED <<options, parallelism, promptsToProcess, pending, settled, results,
                 callerAborted, listenerOn, listenerPc, allTasksAborted, extraCleanupFns,
                 envDestroyCalls, cleanupFnCalls, job, failedPrompts, initCalls,
                 finalizeCalls, workerQueue, workerActive, abortedEarly>>
  /\ UNCHANGED callVars

\* Lines 246-283: collect the MCP logs, prepare the summary and the system
\* prompts, and return the RunInfo; an error of one of the awaited operations
\* fails the run.  The inner pool is not looked at again: calls left behind
\* by a timeout may have submitted operations to it since line 245.
Summarize ==
  /\ pc = "summary"
  /\ \E ok \in BOOLEAN : IF ok THEN ReturnFromTry ELSE ThrowFromTry("SummaryFailure")
  /\ UNCHANGED <<options, parallelism, promptsToProcess, settled, results, callerAborted,
                 listenerOn, listenerPc, extraCleanupFns, cleanupFnCalls, job,
                 failedPrompts, initCalls, finalizeCalls, workerQueue, workerActive, abortedEarly>>
  /\ UNCHANGED callVars

\* cleanup() of the finally block: env.destroy() has settled (lines 54-61);
\* the extra cleanup functions are called next (lines 63-72).
DestroySettles ==
  /\ pc = "destroying"
  /\ \E destroyThrew \in BOOLEAN :
       IF RunsCleanupFns(destroyThrew) /\ extraCleanupFns > 0
       THEN /\ cleanupFnCalls' = cleanupFnCalls + extraCleanupFns
            /\ pc' = "disposing"
            /\ UNCHANGED <<listenerOn, settled>>
       ELSE /\ Settle(destroyThrew)
            /\ UNCHANGED cleanupFnCalls
  /\ UNCHANGED <<options, parallelism, promptsToProcess, pending, results, callerAborted,
                 listenerPc, allTasksAborted, extraCleanupFns, envDestroyCalls, job,
                 failedPrompts, initCalls, finalizeCalls, workerQueue, workerActive, abortedEarly>>
  /\ UNCHANGED callVars

\* The extra cleanup function has settled (lines 64-71); the finally block ends.
DisposeSettles ==
  /\ pc = "disposing"
  /\ \E fnThrew \in BOOLEAN : Settle(fnThrew)
  /\ UNCHANGED <<options, parallelism, promptsToProcess, pending, results, callerAborted,
                 listenerPc, allTasksAborted, extraCleanupFns, envDestroyCalls,
                 cleanupFnCalls, job, failedPrompts, initCalls, finalizeCalls,
                 workerQueue, workerActive, abortedEarly>>
  /\ UNCHANGED callVars

\* ---------------------------------------------------------------------
\* The caller's abort signal and the cleanup() its listener starts (line 76)
\* ---------------------------------------------------------------------
CallerAbort ==
  /\ ~callerAborted
  /\ callerAborted' = TRUE
  /\ job' = [j \in Jobs |->
             [job[j] EXCEPT !.sawAbort = @ \/ job[j].pc \in TaskPcs]]
  /\ abortedEarly' = (\A j \in Jobs : job[j].pc \notin {"done", "threw"})
  /\ IF listenerOn
     THEN /\ envDestroyCalls' = envDestroyCalls + 1
          /\ listenerPc' = "destroying"
     ELSE UNCHANGED <<envDestroyCalls, listenerPc>>
  /\ UNCHANGED <<options, parallelism, promptsToProcess, pc, pending, settled, results,
                 listenerOn, allTasksAborted, extraCleanupFns, cleanupFnCalls,
                 failedPrompts, initCalls, finalizeCalls, workerQueue, workerActive>>
  /\ UNCHANGED callVars

ListenerDestroySettles ==
  /\ listenerPc = "destroying"
  /\ \E destroyThrew \in BOOLEAN :
       IF RunsCleanupFns(destroyThrew) /\ extraCleanupFns > 0
       THEN /\ cleanupFnCalls' = cleanupFnCalls + extraCleanupFns
            /\ listenerPc' = "disposing"
       ELSE /\ listenerPc' = "done"
            /\ UNCHANGED cleanupFnCalls
  /\ UNCHANGED <<options, parallelism, promptsToProcess, pc, pending, settled, results,
                 callerAborted, listenerOn, allTasksAborted, extraCleanupFns,
                 envDestroyCalls, job, failedPrompts, initCalls, finalizeCalls,
                 workerQueue, workerActive, abortedEarly>>
  /\ UNCHANGED callVars

ListenerDisposeSettles ==
  /\ listenerPc = "disposing"
  /\ listenerPc' = "done"
  /\ UNCHANGED <<options, parallelism, promptsToProcess, pc, pending, settled, results,
                 callerAborted, listenerOn, allTasksAborted, extraCleanupFns,
                 envDestroyCalls, cleanupFnCalls, job, failedPrompts, initCalls,
                 finalizeCalls, workerQueue, workerActive, abortedEarly>>
  /\ UNCHANGED callVars


\* ---------------------------------------------------------------------
\* The outer-pool unit of one prompt (lines 159-236)
\* ---------------------------------------------------------------------
\* Bug variants of ShouldRetry: the bound is off by one; the error kind is not looked at.
ShouldRetry_OffByOne(outcome, attemptIdx, maxAttempts) ==
  outcome = "timeout" /\ attemptIdx < maxAttempts

ShouldRetry_AnyError(outcome, attemptIdx, maxAttempts) == attemptIdx < maxAttempts - 1

\* The catch clause of the retry loop continues with the next attempt (line 206).
ShouldRetry(outcome, attemptIdx, maxAttempts) ==
  outcome = "timeout" /\ attemptIdx < maxAttempts - 1

\* Bug variant of EvaluateOutcome: an error of finalizeEval escapes the finally block.
EvaluateOutcome_FinalizeEscapes(outcome, finalizeThrew) ==
  IF finalizeThrew THEN "error" ELSE outcome

\* What evaluate() settles with, given what callWithTimeout settled with and
\* whether finalizeEval threw in the finally block (lines 187-194).
EvaluateOutcome(outcome, finalizeThrew) == outcome

\* A call of startEvaluationTask left behind by a timeout holds a slot of the
\* inner pool or may still ask for one: it has a build to make in its step or
\* in a later one (index.ts lines 105, 200).  After the last rating and in
\* cleanup() it has none.
UsesPool(j, t) ==
  /\ t.at # "cleanup"
  /\ t.at = "rate" => t.step < Len(DefsToExecute(promptsToProcess[j]))

\* The calls left behind that are followed after the attempt in progress has
\* been discarded: their project and cleanups are discarded with it, so what
\* remains of them is their use of the inner pool.
Followed(j) == {t \in job[j].left : UsesPool(j, t)}

\* Bug variant of AfterAttempt: the catch clause rethrows instead of recording.
AfterAttempt_Rethrow(j, outcome) ==
  IF outcome = "ok"
  THEN /\ job' = [job EXCEPT ![j].pc = "done", ![j].outcome = "none", ![j].project = FALSE,
                        ![j].cleanups = 0, ![j].sawAbort = FALSE,
                        ![j].left = Followed(j)]
       /\ UNCHANGED failedPrompts
  ELSE /\ job' = [job EXCEPT ![j].pc = "threw", ![j].outcome = "none", ![j].res = <<>>,
                        ![j].project = FALSE, ![j].cleanups = 0, ![j].sawAbort = FALSE,
                        ![j].left = Followed(j)]
       /\ UNCHANGED failedPrompts

\* One pass of the retry loop body after evaluate() has settled (lines 202-225),
\* followed by lines 227-235 when the loop is left.
AfterAttempt(j, outcome) ==
  IF outcome = "ok"
  THEN /\ job' = [job EXCEPT ![j].pc = "done", ![j].outcome = "none", ![j].project = FALSE,
                        ![j].cleanups = 0, ![j].sawAbort = FALSE,
                        ![j].left = Followed(j)]
       /\ UNCHANGED failedPrompts
  ELSE IF ShouldRetry(outcome, job[j].attemptIdx, MaxAttempts(options))
  THEN \* continue: attemptIdx++, then the loop condition; leaving the loop with
       \* promptResults still null throws at line 228.
       /\ job' = [job EXCEPT ![j].pc = IF job[j].attemptIdx + 1 < MaxAttempts(options)
                                        THEN "init" ELSE "threw",
                             ![j].outcome = "none",
                             ![j].attemptIdx = @ + 1, ![j].res = <<>>,
                             ![j].project = FALSE, ![j].cleanups = 0,
                             ![j].sawAbort = FALSE, ![j].left = Followed(j)]
       /\ UNCHANGED failedPrompts
  ELSE /\ failedPrompts' = Append(failedPrompts,
                                  [promptName |-> promptsToProcess[j].name, job |-> j,
                                   error |-> outcome])
       /\ job' = [job EXCEPT ![j].pc = "done", ![j].outcome = "none", ![j].res = <<>>,
                        ![j].project = FALSE, ![j].cleanups = 0, ![j].sawAbort = FALSE,
                        ![j].left = Followed(j)]

\* The outer PQueue starts its oldest waiting unit when a slot is free.  The
\* unit runs up to its first suspension: the loop is entered and evaluate()
\* calls initializeEval, or, with no attempt to make, line 228 throws.
Admit(j) ==
  /\ j \in Queued
  /\ \A i \in Queued : j <= i
  /\ OuterHasRoom(Cardinality(Running), AppConcurrency(options, parallelism))
  /\ IF 0 < MaxAttempts(options)
     THEN job' = [job EXCEPT ![j].pc = "init"]
     ELSE job' = [job EXCEPT ![j].pc = "threw"]
  /\ UNCHANGED <<options, parallelism, promptsToProcess, pc, pending, settled, results,
                 callerAborted, listenerOn, listenerPc, allTasksAborted, extraCleanupFns,
                 envDestroyCalls, cleanupFnCalls, failedPrompts, initCalls,
                 finalizeCalls, workerQueue, workerActive, abortedEarly>>
  /\ UNCHANGED callVars

\* env.executor.initializeEval settles (line 161): with an EvalID, and
\* startEvaluationTask starts under callWithTimeout and calls
\* setupProjectStructure; or with an error, which reaches the catch clause of
\* the retry loop without passing the finally block.  The catch clause looks at
\* the class of the error only, so an error that is a TimeoutError counts as a
\* timeout.
InitEval(j) ==
  /\ j \in Jobs
  /\ job[j].pc = "init"
  /\ \E settles \in {"ok", "error", "timeout"} :
       IF settles = "ok"
       THEN /\ initCalls' = initCalls \cup {CurrentEval(j)}
            /\ job' = [job EXCEPT ![j].pc = "setup"]
            /\ UNCHANGED failedPrompts
       ELSE /\ AfterAttempt(j, settles)
            /\ UNCHANGED initCalls
  /\ UNCHANGED <<options, parallelism, promptsToProcess, pc, pending, settled, results,
                 callerAborted, listenerOn, listenerPc, allTasksAborted, extraCleanupFns,
                 envDestroyCalls, cleanupFnCalls, finalizeCalls, workerQueue,
                 workerActive, abortedEarly>>
  /\ UNCHANGED callVars

\* callWithTimeout settles with what startEvaluationTask settled with (lines
\* 165-186): "ok", or the kind of the error thrown, "timeout" for an instance
\* of TimeoutError and "error" for any other.  The finally block calls
\* finalizeEval.  Only a fulfilled call hands its results on.  A task that has
\* settled leaves nothing behind.
SettleAttempt(j, outcome) ==
  /\ job' = [job EXCEPT ![j].pc = "finalize", ![j].outcome = outcome, ![j].step = 1,
                        ![j].exit = "none",
                        ![j].res = IF outcome = "ok" THEN @ ELSE <<>>]
  /\ finalizeCalls' = [finalizeCalls EXCEPT ![CurrentEval(j)] = @ + 1]

\* callWithTimeout rejects with a TimeoutError at its deadline (lines 165-186)
\* while startEvaluationTask awaits the operation `at`.  Nothing cancels the
\* call: it goes on running behind the settled attempt.
TimeOutAttempt(j, at) ==
  /\ job' = [job EXCEPT ![j].pc = "finalize", ![j].outcome = "timeout", ![j].step = 1,
                        ![j].exit = "none", ![j].res = <<>>,
                        ![j].left = @ \cup {[attempt |-> job[j].attemptIdx, at |-> at,
                                             step |-> job[j].step, exit |-> job[j].exit]}]
  /\ finalizeCalls' = [finalizeCalls EXCEPT ![CurrentEval(j)] = @ + 1]

\* The attempt of a call left behind is still the one the unit is in: its
\* evaluate() awaits finalizeEval, so project and cleanups are still those of
\* this call.
StillCurrent(j, t) == job[j].attemptIdx = t.attempt /\ job[j].pc = "finalize"

\* A call left behind goes on: `next` is the set holding its new state, empty
\* when the call has ended; setUp says that setupProjectStructure resolved,
\* cleanedUp that cleanup() was called.  Once its attempt is discarded the
\* call is followed only as far as the inner pool is concerned.
LeftBehindGoesOn(j, t, next, setUp, cleanedUp) ==
  job' = [job EXCEPT ![j].left = (@ \ {t}) \cup (IF StillCurrent(j, t) THEN next
                                                 ELSE {n \in next : UsesPool(j, n)}),
                     ![j].project = @ \/ (setUp /\ StillCurrent(j, t)),
                     ![j].cleanups = IF cleanedUp /\ StillCurrent(j, t) THEN @ + 1 ELSE @]

\* Bug variant of StopEarly: the stopped step is counted among the results.
StopEarly_CountsStep(j) ==
  /\ job' = [job EXCEPT ![j].pc = "cleanup", ![j].exit = "break", ![j].cleanups = @ + 1,
                        ![j].res = TaskResults(j, job[j].step)]
  /\ UNCHANGED finalizeCalls

\* A step stops the job: `await cleanup(); break;` (index.ts lines 142-143,
\* 172-173, 216-217).  cleanup() is called and awaited.
StopEarly(j) ==
  /\ job' = [job EXCEPT ![j].pc = "cleanup", ![j].exit = "break", ![j].cleanups = @ + 1]
  /\ UNCHANGED finalizeCalls

\* The last step is rated: results.push(...) and `await cleanup()` of line 257.
Finish(j) ==
  /\ job' = [job EXCEPT ![j].pc = "cleanup", ![j].exit = "return", ![j].cleanups = @ + 1,
                        ![j].res = TaskResults(j, job[j].step)]
  /\ UNCHANGED finalizeCalls

\* An awaited cleanup() settles: threw is "no", or the kind of its error
\* ("timeout" for a TimeoutError), which rejects the task.  After the one
\* before a break the loop is left and line 257 calls cleanup() again; after
\* the one of line 257 the task returns its results (line 258).
CleanupSettled(j, threw) ==
  IF threw # "no"
  THEN SettleAttempt(j, threw)
  ELSE IF job[j].exit = "break"
  THEN /\ job' = [job EXCEPT ![j].exit = "afterBreak", ![j].cleanups = @ + 1]
       /\ UNCHANGED finalizeCalls
  ELSE SettleAttempt(j, "ok")

\* await setupProjectStructure(...) settles (index.ts lines 97-102): the loop
\* over the definitions to execute is entered, or the task rejects with the
\* error of the operation, a TimeoutError ("timeout") or another one.
SetupProject(j) ==
  /\ j \in Jobs
  /\ job[j].pc = "setup"
  /\ \E settles \in {"ok", "error", "timeout"} :
       IF settles = "ok"
       THEN /\ job' = [job EXCEPT ![j].pc = "gen", ![j].project = TRUE]
            /\ UNCHANGED finalizeCalls
       ELSE SettleAttempt(j, settles)
  /\ UNCHANGED <<options, parallelism, promptsToProcess, pc, pending, settled, results,
                 callerAborted, listenerOn, listenerPc, allTasksAborted, extraCleanupFns,
                 envDestroyCalls, cleanupFnCalls, failedPrompts, initCalls, workerQueue,
                 workerActive, abortedEarly>>
  /\ UNCHANGED callVars

\* One step of startEvaluationTask up to its build: the prompts, the context
\* files, generateInitialFiles and writeResponseFiles.  With no response (null
\* or undefined) line 134 reads a property of it and throws a TypeError; with
\* a response that is falsy without being null or undefined the task stops
\* early (lines 136-144), as it does when writing fails (lines 158-174);
\* otherwise attemptBuildAndTest submits its build to the inner pool.
Generate(j) ==
  /\ j \in Jobs
  /\ job[j].pc = "gen"
  /\ \E response \in {"none", "falsy", "unwritable", "written"} :
       IF response = "written"
       THEN /\ job' = [job EXCEPT ![j].pc = "build"]
            /\ SubmitHeavyOperation(CurrentEval(j))
            /\ UNCHANGED finalizeCalls
       ELSE IF response \in {"falsy", "unwritable"}
       THEN /\ StopEarly(j)
            /\ UNCHANGED <<workerQueue, workerActive>>
       ELSE /\ SettleAttempt(j, "error")
            /\ UNCHANGED <<workerQueue, workerActive>>
  /\ UNCHANGED <<options, parallelism, promptsToProcess, pc, pending, settled, results,
                 callerAborted, listenerOn, listenerPc, allTasksAborted, extraCleanupFns,
                 envDestroyCalls, cleanupFnCalls, failedPrompts, initCalls, abortedEarly>>
  /\ UNCHANGED callVars

\* The build/test operation of the job's current attempt leaves the inner pool:
\* attemptBuildAndTest returns an attempt, or nothing (the task then stops
\* early).
BuildEnd(j) ==
  /\ j \in Jobs
  /\ job[j].pc = "build"
  /\ CurrentEval(j) \in workerActive
  /\ WorkerRelease(CurrentEval(j))
  /\ \E built \in BOOLEAN :
       IF built
       THEN /\ job' = [job EXCEPT ![j].pc = "rate"]
            /\ UNCHANGED finalizeCalls
       ELSE StopEarly(j)
  /\ UNCHANGED <<options, parallelism, promptsToProcess, pc, pending, settled, results,
                 callerAborted, listenerOn, listenerPc, allTasksAborted, extraCleanupFns,
                 envDestroyCalls, cleanupFnCalls, failedPrompts, initCalls, abortedEarly>>
  /\ UNCHANGED callVars

\* rateGeneratedCode returns and the step's result is appended; the task goes
\* on with the next step or calls cleanup() at line 257.
Rate(j) ==
  /\ j \in Jobs
  /\ job[j].pc = "rate"
  /\ IF job[j].step < Len(DefsToExecute(promptsToProcess[j]))
     THEN /\ job' = [job EXCEPT ![j].pc = "gen", ![j].step = @ + 1,
                                ![j].res = TaskResults(j, job[j].step)]
          /\ UNCHANGED finalizeCalls
     ELSE Finish(j)
  /\ UNCHANGED <<options, parallelism, promptsToProcess, pc, pending, settled, results,
                 callerAborted, listenerOn, listenerPc, allTasksAborted, extraCleanupFns,
                 envDestroyCalls, cleanupFnCalls, failedPrompts, initCalls, workerQueue,
                 workerActive, abortedEarly>>
  /\ UNCHANGED callVars

\* A cleanup() awaited by the task settles.
CleanupSettles(j) ==
  /\ j \in Jobs
  /\ job[j].pc = "cleanup"
  /\ \E threw \in {"no", "error", "timeout"} : CleanupSettled(j, threw)
  /\ UNCHANGED <<options, parallelism, promptsToProcess, pc, pending, settled, results,
                 callerAborted, listenerOn, listenerPc, allTasksAborted, extraCleanupFns,
                 envDestroyCalls, cleanupFnCalls, failedPrompts, initCalls, workerQueue,
                 workerActive, abortedEarly>>
  /\ UNCHANGED callVars

\* callWithTimeout rejects because an operation awaited by a step of
\* startEvaluationTask threw: nothing catches it there, so no cleanup() call
\* follows, and the error reaches the catch clause of the retry loop as it is:
\* "timeout" when it is an instance of TimeoutError, "error" otherwise.  In
\* the build stage the error is the one of the build/test operation, which
\* thereby leaves the inner pool.
AttemptThrows(j) ==
  /\ j \in Jobs
  /\ job[j].pc \in {"gen", "build", "rate"}
  /\ \E thrown \in {"error", "timeout"} : SettleAttempt(j, thrown)
  /\ IF job[j].pc = "build"
     THEN /\ CurrentEval(j) \in workerActive
          /\ WorkerRelease(CurrentEval(j))
     ELSE UNCHANGED <<workerQueue, workerActive>>
  /\ UNCHANGED <<options, parallelism, promptsToProcess, pc, pending, settled, results,
                 callerAborted, listenerOn, listenerPc, allTasksAborted, extraCleanupFns,
                 envDestroyCalls, cleanupFnCalls, failedPrompts, initCalls, abortedEarly>>
  /\ UNCHANGED callVars

\* callWithTimeout rejects with a TimeoutError: the deadline passed before
\* startEvaluationTask settled, whatever it was awaiting.  The call is left
\* behind, and an operation it has in the inner pool stays there.
AttemptTimesOut(j) ==
  /\ j \in Jobs
  /\ job[j].pc \in TaskPcs
  /\ TimeOutAttempt(j, job[j].pc)
  /\ UNCHANGED <<options, parallelism, promptsToProcess, pc, pending, settled, results,
                 callerAborted, listenerOn, listenerPc, allTasksAborted, extraCleanupFns,
                 envDestroyCalls, cleanupFnCalls, failedPrompts, initCalls, workerQueue,
                 workerActive, abortedEarly>>
  /\ UNCHANGED callVars

\* finalizeEval settles; its error, if any, is logged (lines 189-193).  The
\* retry loop then handles what evaluate() settled with.
FinalizeEval(j) ==
  /\ j \in Jobs
  /\ job[j].pc = "finalize"
  /\ \E finalizeThrew \in BOOLEAN : AfterAttempt(j, EvaluateOutcome(job[j].outcome, finalizeThrew))
  /\ UNCHANGED <<options, parallelism, promptsToProcess, pc, pending, settled, results,
                 callerAborted, listenerOn, listenerPc, allTasksAborted, extraCleanupFns,
                 envDestroyCalls, cleanupFnCalls, initCalls, finalizeCalls, workerQueue,
                 workerActive, abortedEarly>>
  /\ UNCHANGED callVars

\* The operation awaited by a call of startEvaluationTask that a timeout left
\* behind settles, and the call runs on to its next await as SetupProject,
\* Generate, BuildEnd, Rate and CleanupSettles describe (index.ts lines
\* 97-258).  Its results and its rejection reach nobody: callWithTimeout has
\* settled.  It still submits its builds to the inner pool and still calls
\* cleanup().
LeftBehindTask(j) ==
  /\ j \in Jobs
  /\ \E t \in job[j].left :
       LET id == <<j, t.attempt>>
           stopEarly == {[t EXCEPT !.at = "cleanup", !.exit = "break"]}
       IN CASE t.at = "setup" ->
                 /\ \E ok \in BOOLEAN :
                      LeftBehindGoesOn(j, t, IF ok THEN {[t EXCEPT !.at = "gen"]} ELSE {},
                                       ok, FALSE)
                 /\ UNCHANGED <<workerQueue, workerActive>>
            [] t.at = "gen" ->
                 \E response \in {"none", "falsy", "unwritable", "written"} :
                   IF response = "written"
                   THEN /\ LeftBehindGoesOn(j, t, {[t EXCEPT !.at = "build"]}, FALSE, FALSE)
                        /\ SubmitHeavyOperation(id)
                   ELSE /\ LeftBehindGoesOn(j, t, IF response = "none"
                                                  THEN {} ELSE stopEarly,
                                            FALSE, response # "none")
                        /\ UNCHANGED <<workerQueue, workerActive>>
            [] t.at = "build" ->
                 /\ id \in workerActive
                 /\ WorkerRelease(id)
                 /\ \E attempt \in {"attempt", "nothing", "throws"} :
                      LeftBehindGoesOn(j, t,
                                       IF attempt = "attempt"
                                       THEN {[t EXCEPT !.at = "rate"]}
                                       ELSE IF attempt = "nothing" THEN stopEarly ELSE {},
                                       FALSE, attempt = "nothing")
            [] t.at = "rate" ->
                 /\ \E rated \in BOOLEAN :
                      IF ~rated
                      THEN LeftBehindGoesOn(j, t, {}, FALSE, FALSE)
                      ELSE IF t.step < Len(DefsToExecute(promptsToProcess[j]))
                      THEN LeftBehindGoesOn(j, t, {[t EXCEPT !.at = "gen", !.step = @ + 1]},
                                            FALSE, FALSE)
                      ELSE LeftBehindGoesOn(j, t, {[t EXCEPT !.at = "cleanup",
                                                             !.exit = "return"]},
                                            FALSE, TRUE)
                 /\ UNCHANGED <<workerQueue, workerActive>>
            [] t.at = "cleanup" ->
                 /\ \E threw \in BOOLEAN :
                      IF ~threw /\ t.exit = "break"
                      THEN LeftBehindGoesOn(j, t, {[t EXCEPT !.exit = "afterBreak"]},
                                            FALSE, TRUE)
                      ELSE LeftBehindGoesOn(j, t, {}, FALSE, FALSE)
                 /\ UNCHANGED <<workerQueue, workerActive>>
  /\ UNCHANGED <<options, parallelism, promptsToProcess, pc, pending, settled, results,
                 callerAborted, listenerOn, listenerPc, allTasksAborted, extraCleanupFns,
                 envDestroyCalls, cleanupFnCalls, failedPrompts, initCalls,
                 finalizeCalls, abortedEarly>>
  /\ UNCHANGED callVars

Next ==
  \/ Validate
  \/ Resolve
  \/ Schedule
  \/ AwaitAll
  \/ OnEmpty
  \/ Summarize
  \/ DestroySettles
  \/ DisposeSettles
  \/ CallerAbort
  \/ ListenerDestroySettles
  \/ ListenerDisposeSettles
  \/ \E j \in Jobs : Admit(j)
  \/ \E j \in Jobs : InitEval(j)
  \/ \E j \in Jobs : SetupProject(j)
  \/ \E j \in Jobs : Generate(j)
  \/ \E j \in Jobs : BuildEnd(j)
  \/ \E j \in Jobs : Rate(j)
  \/ \E j \in Jobs : CleanupSettles(j)
  \/ \E j \in Jobs : AttemptThrows(j)
  \/ \E j \in Jobs : AttemptTimesOut(j)
  \/ \E j \in Jobs : FinalizeEval(j)
  \/ \E j \in Jobs : LeftBehindTask(j)

Spec == Init /\ [][Next]_vars

\* The run of the inner-pool scenario: automatic concurrency on a machine whose
\* availableParallelism gives an outer pool of 4, four single-step prompts, and
\* options without an abortSignal (`options.abortSignal?.`, lines 76, 178, 292),
\* so that no caller abort and no listener cleanup can happen.
InitPool ==
  /\ NoCall
  /\ Start([promptTimeoutRetries |-> <<0>>, concurrency |-> [auto |-> TRUE, value |-> 0]],
           5, [j \in 1..4 |-> [name |-> NameList[1], kind |-> "single", steps |-> <<>>]], FALSE)

NextPool ==
  \/ Validate
  \/ Resolve
  \/ Schedule
  \/ AwaitAll
  \/ OnEmpty
  \/ Summarize
  \/ DestroySettles
  \/ DisposeSettles
  \/ \E j \in Jobs : Admit(j)
  \/ \E j \in Jobs : InitEval(j)
  \/ \E j \in Jobs : SetupProject(j)
  \/ \E j \in Jobs : Generate(j)
  \/ \E j \in Jobs : BuildEnd(j)
  \/ \E j \in Jobs : Rate(j)
  \/ \E j \in Jobs : CleanupSettles(j)
  \/ \E j \in Jobs : AttemptThrows(j)
  \/ \E j \in Jobs : AttemptTimesOut(j)
  \/ \E j \in Jobs : FinalizeEval(j)
  \/ \E j \in Jobs : LeftBehindTask(j)

SpecPool == InitPool /\ [][NextPool]_vars


\* ---------------------------------------------------------------------
\* getCandidateExecutablePrompts and the truncation to options.limit
\* (src/unnamed/part_002 lines 83-85, 297-325, 353-359)
\* ---------------------------------------------------------------------
\* Prompt names are strings, modelled as sequences of characters.
PromptNames == {<<1>>, <<2>>, <<1, 2>>, <<2, 1>>}

\* env.executablePrompts(): the catalog, each prompt with its position as identity.
Catalogs ==
  {[i \in 1..Len(names) |-> [name |-> names[i], id |-> i]] :
     names \in SeqsUpTo(PromptNames, MaxCatalog)}

\* An optional value is <<>> (undefined) or <<v>>.
FilterValues == {<<>>} \cup {<<f>> : f \in {<<>>} \cup PromptNames}

LimitValues == {<<>>} \cup {<<n>> : n \in (-1)..(MaxCatalog + 1)}

\* The directories of LLM_OUTPUT_DIR/<env.id>, or <<>> when that directory does not exist.
LocalOutputValues == {<<>>} \cup {<<dirs>> : dirs \in SUBSET PromptNames}

\* String.prototype.includes
Includes(name, sub) ==
  \E k \in 0..(Len(name) - Len(sub)) : SubSeq(name, k + 1, k + Len(sub)) = sub

\* Lines 307-315: in local mode, when the environment's output directory
\* exists, keep the prompts that have a directory of their name in it.
LocalFilter(result, localMode, localOutput) ==
  IF localMode /\ localOutput # <<>>
  THEN LET HasLocalOutput(prompt) == prompt.name \in localOutput[1]
       IN SelectSeq(result, HasLocalOutput)
  ELSE result

\* !promptFilter: undefined or the empty string.
NoPromptFilter(promptFilter) == promptFilter = <<>> \/ promptFilter[1] = <<>>

\* Bug variant of MatchesFilter: the name must start with the filter.
MatchesFilter_Prefix(name, promptFilter) ==
  Len(promptFilter) <= Len(name) /\ SubSeq(name, 1, Len(promptFilter)) = promptFilter

\* name.includes(promptFilter)   (line 324)
MatchesFilter(name, promptFilter) == Includes(name, promptFilter)

\* Bug variant of Swap: the element at i is overwritten, the one at j kept.
Swap_Overwrite(items, i, j) == [items EXCEPT ![i] = items[j]]

\* [items[i], items[j]] = [items[j], items[i]]   (line 356; positions from 1)
Swap(items, i, j) == [items EXCEPT ![i] = items[j], ![j] = items[i]]

\* Array.prototype.slice(0, end) with an optional end.
Slice(list, end) ==
  LET n == Len(list)
      stop == IF end = <<>> THEN n
              ELSE IF end[1] < 0 THEN (IF n + end[1] < 0 THEN 0 ELSE n + end[1])
              ELSE IF end[1] > n THEN n ELSE end[1]
  IN SubSeq(list, 1, stop)

\* `let result = await env.executablePrompts()` has resolved (line 303).
InitCandidates ==
  /\ Start([promptTimeoutRetries |-> <<>>, concurrency |-> [auto |-> FALSE, value |-> 1]],
           1, <<>>, FALSE)
  /\ \E catalog \in Catalogs, localMode \in BOOLEAN, promptFilter \in FilterValues,
        limit \in LimitValues :
       \E localOutput \in (IF localMode THEN LocalOutputValues ELSE {<<>>}) :
         /\ input = [executablePrompts |-> catalog, localMode |-> localMode,
                     localOutput |-> localOutput, promptFilter |-> promptFilter,
                     limit |-> limit]
         /\ output = catalog
  /\ phase = "local"
  /\ idx = 0

\* Lines 305-315.
FilterLocal ==
  /\ phase = "local"
  /\ output' = LocalFilter(output, input.localMode, input.localOutput)
  /\ phase' = "order"
  /\ UNCHANGED <<input, idx, runVars>>

\* Lines 317-324: without a prompt filter shuffleArray starts at the last
\* position; with one, the list is filtered by name and returned.
ChooseOrder ==
  /\ phase = "order"
  /\ IF NoPromptFilter(input.promptFilter)
     THEN /\ idx' = Len(output) - 1
          /\ phase' = IF Len(output) - 1 > 0 THEN "shuffle" ELSE "slice"
          /\ UNCHANGED output
     ELSE /\ LET Matches(prompt) == MatchesFilter(prompt.name, input.promptFilter[1])
             IN output' = SelectSeq(output, Matches)
          /\ phase' = "slice"
          /\ UNCHANGED idx
  /\ UNCHANGED <<input, runVars>>

\* One pass of the loop of shuffleArray (lines 354-357): j is
\* Math.floor(Math.random() * (i + 1)), any of 0..i.
ShuffleStep ==
  /\ phase = "shuffle"
  /\ \E j \in 0..idx : output' = Swap(output, idx + 1, j + 1)
  /\ idx' = idx - 1
  /\ phase' = IF idx - 1 > 0 THEN "shuffle" ELSE "slice"
  /\ UNCHANGED <<input, runVars>>

\* .slice(0, options.limit)   (line 85)
Truncate ==
  /\ phase = "slice"
  /\ output' = Slice(output, input.limit)
  /\ phase' = "done"
  /\ UNCHANGED <<input, idx, runVars>>

NextCandidates == FilterLocal \/ ChooseOrder \/ ShuffleStep \/ Truncate

SpecCandidates == InitCandidates /\ [][NextCandidates]_vars

\* ---------------------------------------------------------------------
\* Environment: rating categories, rating overrides and the rating hash
\* (src/runner/codegen/runner-creation.ts lines 343-349, 681-749)
\* ---------------------------------------------------------------------
\* Strings are sequences of UTF-16 code units.
Chr == [semicolon |-> 59, comma |-> 44, bar |-> 124, percent |-> 37,
        a |-> 97, b |-> 98, c |-> 99, x |-> 120, y |-> 121,
        h |-> 104, m |-> 109, l |-> 108]

RatingCategories == {"high-impact", "medium-impact", "low-impact"}

\* The text of a category in a template string, shortened to its first letter.
CategoryText(category) ==
  IF category = "high-impact" THEN <<Chr.h>>
  ELSE IF category = "medium-impact" THEN <<Chr.m>> ELSE <<Chr.l>>

\* rating.groupingLabels: <<>> (undefined) or <<array of strings>>.
LabelValues ==
  {<<>>, << <<>> >>, << << <<Chr.x>> >> >>, << << <<Chr.x>>, <<Chr.y>> >> >>,
   << << <<Chr.y>>, <<Chr.x>> >> >>}

Ratings ==
  [category : {"high-impact", "low-impact"}, id : {<<Chr.a>>, <<Chr.b>>},
   scoreReduction : {<<53, Chr.percent>>}, groupingLabels : LabelValues]

\* config.ratingOverrides: <<>> or one override, for a rating id, of scoreReduction.
RatingOverrideValues ==
  {<<>>} \cup {<<[id |-> id, scoreReduction |-> <<57, Chr.percent>>]>> :
                 id \in {<<Chr.a>>, <<Chr.c>>}}

\* config.categoryOverrides: <<>> or one override of a category's maxPoints.
CategoryOverrideValues == {<<>>, <<[category |-> "high-impact", maxPoints |-> 50]>>}

\* Array.prototype.join
RECURSIVE JoinStrings(_, _)
JoinStrings(list, sep) ==
  IF list = <<>> THEN <<>>
  ELSE IF Len(list) = 1 THEN list[1]
  ELSE list[1] \o <<sep>> \o JoinStrings(Tail(list), sep)

\* a <= b in the order of the default Array.prototype.sort: by code units,
\* a proper prefix first.
RECURSIVE StringLessEq(_, _)
StringLessEq(a, b) ==
  IF a = <<>> THEN TRUE
  ELSE IF b = <<>> THEN FALSE
  ELSE IF a[1] # b[1] THEN a[1] < b[1]
  ELSE StringLessEq(Tail(a), Tail(b))

RECURSIVE InsertString(_, _)
InsertString(sorted, text) ==
  IF sorted = <<>> THEN <<text>>
  ELSE IF StringLessEq(sorted[Len(sorted)], text) THEN Append(sorted, text)
  ELSE Append(InsertString(SubSeq(sorted, 1, Len(sorted) - 1), text), sorted[Len(sorted)])

\* Bug variant of SortStrings: the parts are joined in the order of the ratings.
SortStrings_Unsorted(list) == list

\* parts.sort()   (line 735)
RECURSIVE SortStrings(_)
SortStrings(list) ==
  IF list = <<>> THEN <<>>
  ELSE InsertString(SortStrings(SubSeq(list, 1, Len(list) - 1)), list[Len(list)])

\* getRatingCategories (lines 700-720): the maxPoints of each category.
GetRatingCategories(config) ==
  [category \in RatingCategories |->
     IF config.categoryOverrides # <<>> /\ config.categoryOverrides[1].category = category
     THEN config.categoryOverrides[1].maxPoints
     ELSE IF category = "high-impact" THEN 60
     ELSE IF category = "medium-impact" THEN 30 ELSE 10]

\* resolveRatings (lines 681-698): the ratings with the overrides applied, or
\* the error thrown for an override of a rating that is not configured.
ResolveRatings(config) ==
  IF config.ratingOverrides = <<>>
  THEN [ok |-> TRUE, ratings |-> config.ratings]
  ELSE LET override == config.ratingOverrides[1]
       IN IF \A i \in 1..Len(config.ratings) : config.ratings[i].id # override.id
          THEN [ok |-> FALSE, ratings |-> <<>>]
          ELSE [ok |-> TRUE,
                ratings |-> [i \in 1..Len(config.ratings) |->
                               IF config.ratings[i].id = override.id
                               THEN [config.ratings[i] EXCEPT
                                       !.scoreReduction = override.scoreReduction]
                               ELSE config.ratings[i]]]

\* `${rating.groupingLabels || [].sort().join(',')}`   (line 731): `||` binds
\* the whole of `[].sort().join(',')`, so an array of labels is interpolated
\* by Array.prototype.toString, in the order it has; undefined gives ''.
LabelsText(groupingLabels) ==
  IF groupingLabels = <<>> THEN <<>> ELSE JoinStrings(groupingLabels[1], Chr.comma)

\* The canonical string of one rating (lines 729-732).
RatingPart(rating, categories) ==
  CategoryText(rating.category) \o <<Chr.semicolon>>
    \o Digits(categories[rating.category]) \o <<Chr.semicolon>>
    \o rating.id \o <<Chr.semicolon>>
    \o rating.scoreReduction \o <<Chr.semicolon>>
    \o LabelsText(rating.groupingLabels)

\* getSha256Hash, as a collision-free function of its text: a tag and the text.
Sha256(text) == <<0>> \o text

\* getRatingHash (lines 722-736)
GetRatingHash(ratings, categories) ==
  Sha256(JoinStrings(SortStrings([i \in 1..Len(ratings) |->
                                    RatingPart(ratings[i], categories)]),
                     Chr.bar))

\* Bug variant of HashMismatch: the expectation is never looked at.
HashMismatch_Never(expected, currentHash) == FALSE

\* config.expectedRatingHash && config.expectedRatingHash !== currentHash   (line 739)
HashMismatch(expected, currentHash) ==
  expected # <<>> /\ expected[1] # <<>> /\ expected[1] # currentHash

\* new Environment(rootPath, config): the constructor is entered.
InitEnvironment ==
  /\ Start([promptTimeoutRetries |-> <<>>, concurrency |-> [auto |-> FALSE, value |-> 1]],
           1, <<>>, FALSE)
  /\ \E ratings \in SeqsUpTo(Ratings, MaxRatings),
        ratingOverrides \in RatingOverrideValues,
        categoryOverrides \in CategoryOverrideValues,
        expectation \in {"unset", "empty", "configured", "resolved", "other"} :
       LET config == [ratings |-> ratings, ratingOverrides |-> ratingOverrides,
                      categoryOverrides |-> categoryOverrides]
           noOverrides == [ratings |-> ratings, ratingOverrides |-> <<>>,
                           categoryOverrides |-> <<>>]
       IN input = [ratings |-> ratings, ratingOverrides |-> ratingOverrides,
                   categoryOverrides |-> categoryOverrides,
                   expectedRatingHash |->
                     IF expectation = "unset" THEN <<>>
                     ELSE IF expectation = "empty" THEN << <<>> >>
                     ELSE IF expectation = "configured"
                     THEN <<GetRatingHash(ratings, GetRatingCategories(noOverrides))>>
                     ELSE IF expectation = "resolved"
                     THEN <<GetRatingHash(ResolveRatings(config).ratings,
                                          GetRatingCategories(config))>>
                     ELSE <<Sha256(<<Chr.x>>)>>]
  /\ output = [ratingCategories |-> <<>>, ratings |-> <<>>, ratingHash |-> <<>>,
               error |-> <<>>]
  /\ phase = "categories"
  /\ idx = 0

\* this.ratingCategories = this.getRatingCategories(config)   (line 343)
SetRatingCategories ==
  /\ phase = "categories"
  /\ output' = [output EXCEPT !.ratingCategories = GetRatingCategories(input)]
  /\ phase' = "ratings"
  /\ UNCHANGED <<input, idx, runVars>>

\* this.ratings = this.resolveRatings(config)   (line 344)
SetRatings ==
  /\ phase = "ratings"
  /\ IF ResolveRatings(input).ok
     THEN /\ output' = [output EXCEPT !.ratings = ResolveRatings(input).ratings]
          /\ phase' = "hash"
     ELSE /\ output' = [output EXCEPT !.error = [kind |-> "UnknownRating"]]
          /\ phase' = "failed"
  /\ UNCHANGED <<input, idx, runVars>>

\* this.ratingHash = this.getRatingHash(this.ratings, this.ratingCategories)   (line 345)
SetRatingHash ==
  /\ phase = "hash"
  /\ output' = [output EXCEPT
                  !.ratingHash = GetRatingHash(output.ratings, output.ratingCategories)]
  /\ phase' = "validate"
  /\ UNCHANGED <<input, idx, runVars>>

\* this.validateRatingHash(this.ratingHash, config)   (lines 349, 738-749)
ValidateRatingHash ==
  /\ phase = "validate"
  /\ IF HashMismatch(input.expectedRatingHash, output.ratingHash)
     THEN /\ output' = [output EXCEPT
                          !.error = [kind |-> "RatingHashMismatch",
                                     expected |-> input.expectedRatingHash[1],
                                     actual |-> output.ratingHash]]
          /\ phase' = "failed"
     ELSE /\ phase' = "constructed"
          /\ UNCHANGED output
  /\ UNCHANGED <<input, idx, runVars>>

NextEnvironment == SetRatingCategories \/ SetRatings \/ SetRatingHash \/ ValidateRatingHash

SpecEnvironment == InitEnvironment /\ [][NextEnvironment]_vars

\* ---------------------------------------------------------------------
\* Environment.getMultiStepPrompt: the steps of a multi-step prompt directory
\* (src/runner/codegen/runner-creation.ts lines 585-651)
\* ---------------------------------------------------------------------
\* 'step-'
StepPrefix == <<115, 116, 101, 112, 45>>

\* basename(promptRoot): 'p'
PromptRootName == <<112>>

\* Names of directory entries: step-0, step-1, step-2, step-3, step-02, step-2.md, step-x, notes.
EntityNames ==
  {<<115, 116, 101, 112, 45, 48>>,
   <<115, 116, 101, 112, 45, 49>>,
   <<115, 116, 101, 112, 45, 50>>,
   <<115, 116, 101, 112, 45, 51>>,
   <<115, 116, 101, 112, 45, 48, 50>>,
   <<115, 116, 101, 112, 45, 50, 46, 109, 100>>,
   <<115, 116, 101, 112, 45, 120>>,
   <<110, 111, 116, 101, 115>>}

\* Dirent: a name and whether isFile() holds. Two of the names also occur as
\* sub-directories.
Entities ==
  [name : EntityNames, isFile : {TRUE}]
    \cup [name : {<<115, 116, 101, 112, 45, 49>>, <<110, 111, 116, 101, 115>>}, isFile : {FALSE}]

\* readdirSync(promptRoot, {withFileTypes: true}): entries with distinct names,
\* in any order.
Listings ==
  {list \in SeqsUpTo(Entities, MaxEntities) :
     \A i, k \in 1..Len(list) : list[i].name = list[k].name => i = k}

IsDigit(code) == code \in 48..57

\* The longest prefix of digits.
RECURSIVE LeadingDigits(_)
LeadingDigits(text) ==
  IF text = <<>> \/ ~IsDigit(text[1]) THEN <<>>
  ELSE <<text[1]>> \o LeadingDigits(Tail(text))

\* Bug variant of MatchStep: every name is taken for step-1.
MatchStep_Always(name) == << <<49>> >>

\* current.name.match(/^step-(\d+)/): <<>> without a match (null), else the
\* captured digits match[1].   (lines 592, 614)
MatchStep(name) ==
  IF /\ Len(name) > Len(StepPrefix)
     /\ SubSeq(name, 1, Len(StepPrefix)) = StepPrefix
     /\ IsDigit(name[Len(StepPrefix) + 1])
  THEN <<LeadingDigits(SubSeq(name, Len(StepPrefix) + 1, Len(name)))>>
  ELSE <<>>

\* parseInt(match[1])   (line 630)
RECURSIVE ParseInt(_)
ParseInt(digits) ==
  IF digits = <<>> THEN 0
  ELSE 10 * ParseInt(SubSeq(digits, 1, Len(digits) - 1)) + (digits[Len(digits)] - 48)

\* `${name}-step-${stepNum}`   (line 635)
StepName(stepNum) == PromptRootName \o StepInfix \o Digits(stepNum)

\* getSinglePromptDefinition(name, join(directoryPath, current.name), ratings,
\* stepNum !== 1, metadata)   (lines 634-640, 559-577)
StepDefinition(current, stepNum) ==
  [name |-> StepName(stepNum), path |-> current.name, isEditing |-> stepNum # 1]

RECURSIVE InsertStep(_, _, _)
InsertStep(sorted, step, stepValues) ==
  IF sorted = <<>> THEN <<step>>
  ELSE IF stepValues[sorted[Len(sorted)].name] - stepValues[step.name] <= 0
  THEN Append(sorted, step)
  ELSE Append(InsertStep(SubSeq(sorted, 1, Len(sorted) - 1), step, stepValues),
              sorted[Len(sorted)])

\* Bug variant of SortSteps: the steps stay in the order of the listing.
SortSteps_Unsorted(steps, stepValues) == steps

\* steps.sort((a, b) => stepValues[a.name] - stepValues[b.name])   (line 649):
\* a stable sort by the recorded step number.
RECURSIVE SortSteps(_, _)
SortSteps(steps, stepValues) ==
  IF steps = <<>> THEN <<>>
  ELSE InsertStep(SortSteps(SubSeq(steps, 1, Len(steps) - 1), stepValues),
                  steps[Len(steps)], stepValues)

\* Bug variant of UserFacingError: the message quotes no entry name.
UserFacingError_Nameless(message, names) ==
  [kind |-> "UserFacingError", message |-> message, names |-> <<>>]

\* new UserFacingError(message); names holds the entry name the message quotes.
UserFacingError(message, names) ==
  [kind |-> "UserFacingError", message |-> message, names |-> names]

\* getMultiStepPrompt(def, envRatings) is entered.
InitMultiStep ==
  /\ Start([promptTimeoutRetries |-> <<>>, concurrency |-> [auto |-> FALSE, value |-> 1]],
           1, <<>>, FALSE)
  /\ \E isDirectory \in BOOLEAN, entities \in Listings :
       /\ ~isDirectory => entities = <<>>
       /\ input = [isDirectory |-> isDirectory, entities |-> entities]
  /\ output = [steps |-> <<>>, stepValues |-> <<>>, error |-> <<>>]
  /\ phase = "read"
  /\ idx = 0

\* statSync(promptRoot).isDirectory(), readdirSync, entities.length === 0
\* (lines 595-605)
ReadEntities ==
  /\ phase = "read"
  /\ IF ~input.isDirectory
     THEN /\ output' = [output EXCEPT !.error = UserFacingError("not a directory", <<>>)]
          /\ phase' = "failed"
          /\ idx' = idx
     ELSE IF Len(input.entities) = 0
     THEN /\ output' = [output EXCEPT !.error = UserFacingError("cannot be empty", <<>>)]
          /\ phase' = "failed"
          /\ idx' = idx
     ELSE /\ phase' = "visit"
          /\ idx' = 1
          /\ UNCHANGED output
  /\ UNCHANGED <<input, runVars>>

\* One pass of `for (const current of entities)`   (lines 607-644)
VisitEntity ==
  /\ phase = "visit"
  /\ LET current == input.entities[idx]
         match == MatchStep(current.name)
     IN IF ~current.isFile
        THEN /\ output' = [output EXCEPT
                             !.error = UserFacingError("is not a file", <<current.name>>)]
             /\ phase' = "failed"
             /\ idx' = idx
        ELSE IF match = <<>> \/ match[1] = <<>>
        THEN /\ output' = [output EXCEPT
                             !.error = UserFacingError("must be in the form of step-<number>",
                                                       <<current.name>>)]
             /\ phase' = "failed"
             /\ idx' = idx
        ELSE IF ParseInt(match[1]) = 0
        THEN /\ output' = [output EXCEPT
                             !.error = UserFacingError("start with step-1", <<>>)]
             /\ phase' = "failed"
             /\ idx' = idx
        ELSE LET stepNum == ParseInt(match[1])
                 step == StepDefinition(current, stepNum)
             IN /\ output' = [output EXCEPT
                                !.steps = Append(@, step),
                                !.stepValues =
                                  [n \in DOMAIN @ \cup {step.name} |->
                                     IF n = step.name THEN stepNum ELSE @[n]]]
                /\ idx' = idx + 1
                /\ phase' = IF idx = Len(input.entities) THEN "sort" ELSE "visit"
  /\ UNCHANGED <<input, runVars>>

\* return {name, kind: 'multi-step', steps: steps.sort(...)}   (lines 646-650)
ReturnSteps ==
  /\ phase = "sort"
  /\ output' = [output EXCEPT !.steps = SortSteps(output.steps, output.stepValues)]
  /\ phase' = "resolved"
  /\ UNCHANGED <<input, idx, runVars>>

NextMultiStep == ReadEntities \/ VisitEntity \/ ReturnSteps

SpecMultiStep == InitMultiStep /\ [][NextMultiStep]_vars

\* ---------------------------------------------------------------------
\* startEvaluationTask, operation by operation (src/runner/index.ts lines
\* 85-259), for the unit of one prompt inside its retry loop.  `phase` is the
\* operation the task is awaiting, `output.log` what the attempt in progress
\* has done so far, and `output.inits` how initializeEval settled in each
\* attempt of the unit.
\* ---------------------------------------------------------------------
TaskPhases ==
  {"setup", "prompt", "context", "generate", "write", "journeys", "build", "rate", "cleanup"}

\* One more entry of the task's log: what happened, in which step, at which
\* operation.
Logged(j, op) == Append(output.log, [op |-> op, step |-> job[j].step, at |-> phase])

\* The task is running and nothing it awaits has been left behind by a timeout.
TaskAt(j, at) == j \in Jobs /\ job[j].pc \in TaskPcs /\ phase = at

\* The kinds of error the catch clause of the retry loop tells apart with
\* `e instanceof TimeoutError` (part_002 line 206): "timeout" is an instance of
\* TimeoutError, "error" any other value thrown.
Thrown == {"error", "timeout"}

\* The log entry for an error of the given kind.
ThrowOp(thrown) == IF thrown = "timeout" THEN "throw TimeoutError" ELSE "throw"

\* Variant: the error that leaves the task is taken for an ordinary one
\* whatever its class.
TaskThrows_AsError(j, thrown) ==
  /\ SettleAttempt(j, "error")
  /\ output' = [output EXCEPT !.log = Logged(j, ThrowOp(thrown))]
  /\ phase' = "settled"

\* An operation awaited by the task rejects with an error of the given kind:
\* the promise of the task rejects with it.  No statement of the function
\* catches it (the only try block is the one of lines 146-174), so cleanup()
\* is not called, and callWithTimeout hands the error to evaluate() and the
\* retry loop as it is.
TaskThrows(j, thrown) ==
  /\ SettleAttempt(j, thrown)
  /\ output' = [output EXCEPT !.log = Logged(j, ThrowOp(thrown))]
  /\ phase' = "settled"

\* attemptBuildAndTest is called (line 200); it submits to the inner pool.
TaskStartsBuild(j) ==
  /\ job' = [job EXCEPT ![j].pc = "build"]
  /\ SubmitHeavyOperation(CurrentEval(j))
  /\ phase' = "build"
  /\ UNCHANGED finalizeCalls

TaskFrame ==
  UNCHANGED <<options, parallelism, promptsToProcess, pc, pending, settled, results,
              callerAborted, listenerOn, listenerPc, allTasksAborted, extraCleanupFns,
              envDestroyCalls, cleanupFnCalls, failedPrompts, initCalls, abortedEarly,
              input, idx>>

\* The run is awaiting its units; the unit of its only prompt has entered its
\* retry loop and evaluate() awaits initializeEval (part_002 line 161).  No
\* abortSignal is given.
InitTask ==
  /\ \E retries \in {<<>>, <<MaxRetries>>}, def \in PromptDefs :
       /\ def.name = NameList[1]
       /\ options = [promptTimeoutRetries |-> retries,
                     concurrency |-> [auto |-> FALSE, value |-> 1]]
       /\ promptsToProcess = <<def>>
  /\ parallelism = 1
  /\ pc = "await"
  /\ pending = "none"
  /\ settled = "no"
  /\ results = <<>>
  /\ callerAborted = FALSE
  /\ listenerOn = TRUE
  /\ listenerPc = "idle"
  /\ allTasksAborted = FALSE
  /\ extraCleanupFns = 1
  /\ envDestroyCalls = 0
  /\ cleanupFnCalls = 0
  /\ job = <<[InitJob EXCEPT !.pc = "init"]>>
  /\ failedPrompts = <<>>
  /\ initCalls = {}
  /\ finalizeCalls = [id \in {1} \X (0..MaxRetries) |-> 0]
  /\ workerQueue = <<>>
  /\ workerActive = {}
  /\ abortedEarly = FALSE
  /\ \E enableUserJourneyTesting \in BOOLEAN :
       input = [enableUserJourneyTesting |-> enableUserJourneyTesting]
  /\ output = [log |-> <<>>, inits |-> <<>>]
  /\ phase = "init"
  /\ idx = 0

\* await env.executor.initializeEval(rootPromptDef) settles (part_002 line
\* 161), as InitEval describes: with an EvalID, and startEvaluationTask is
\* called under callWithTimeout and awaits setupProjectStructure; or with an
\* error, which the catch clause of the retry loop receives (lines 205-224).
\* The log of the attempt starts here.
TaskInitEval(j) ==
  /\ j \in Jobs
  /\ job[j].pc = "init"
  /\ \E settles \in {"ok"} \cup Thrown :
       /\ IF settles = "ok"
          THEN /\ initCalls' = initCalls \cup {CurrentEval(j)}
               /\ job' = [job EXCEPT ![j].pc = "setup"]
               /\ UNCHANGED failedPrompts
          ELSE /\ AfterAttempt(j, settles)
               /\ UNCHANGED initCalls
       /\ output' = [log |-> IF settles = "ok" THEN <<>>
                             ELSE <<[op |-> ThrowOp(settles), step |-> job[j].step,
                                     at |-> "initializeEval"]>>,
                     inits |-> Append(output.inits, settles)]
       /\ phase' = IF settles = "ok" THEN "setup" ELSE "settled"
  /\ UNCHANGED <<options, parallelism, promptsToProcess, pc, pending, settled, results,
                 callerAborted, listenerOn, listenerPc, allTasksAborted, extraCleanupFns,
                 envDestroyCalls, cleanupFnCalls, finalizeCalls, workerQueue,
                 workerActive, abortedEarly, input, idx>>

\* await setupProjectStructure(...)   (lines 97-105)
TaskSetup(j) ==
  /\ TaskAt(j, "setup")
  /\ \E settles \in {"ok"} \cup Thrown :
       IF settles = "ok"
       THEN /\ job' = [job EXCEPT ![j].pc = "gen", ![j].project = TRUE]
            /\ phase' = "prompt"
            /\ UNCHANGED <<finalizeCalls, output>>
       ELSE TaskThrows(j, settles)
  /\ UNCHANGED <<workerQueue, workerActive>>
  /\ TaskFrame

\* await Promise.all([env.getPrompt(...), env.getPrompt(...)])   (lines 108-111)
RenderPrompt(j) ==
  /\ TaskAt(j, "prompt")
  /\ \E settles \in {"ok"} \cup Thrown :
       IF settles = "ok"
       THEN /\ output' = [output EXCEPT !.log = Logged(j, "render")]
            /\ phase' = "context"
            /\ UNCHANGED <<job, finalizeCalls>>
       ELSE TaskThrows(j, settles)
  /\ UNCHANGED <<workerQueue, workerActive>>
  /\ TaskFrame

\* await resolveContextFiles(promptDef.contextFilePatterns, directory)   (line 115)
ResolveContext(j) ==
  /\ TaskAt(j, "context")
  /\ \E settles \in {"ok"} \cup Thrown :
       IF settles = "ok"
       THEN /\ phase' = "generate"
            /\ UNCHANGED <<job, finalizeCalls, output>>
       ELSE TaskThrows(j, settles)
  /\ UNCHANGED <<workerQueue, workerActive>>
  /\ TaskFrame

\* await generateInitialFiles(...) and lines 134-144.  With no response (null
\* or undefined), `initialResponse.toolLogs` reads a property of it: a
\* TypeError is thrown before the `!initialResponse` test of line 136 is
\* reached.  With a response that is falsy without being null or undefined
\* (false, 0, ''), line 134 reads undefined and takes [], and the branch of
\* lines 136-144 logs the failure, awaits cleanup() and leaves the loop.
GenerateFiles(j) ==
  /\ TaskAt(j, "generate")
  /\ \E response \in {"files", "nothing", "falsy"} \cup Thrown :
       IF response = "files"
       THEN /\ output' = [output EXCEPT !.log = Logged(j, "generate")]
            /\ phase' = "write"
            /\ UNCHANGED <<job, finalizeCalls>>
       ELSE IF response = "nothing"
       THEN /\ SettleAttempt(j, "error")
            /\ output' = [output EXCEPT
                            !.log = Append(Logged(j, "no response"), [op |-> "throw",
                                           step |-> job[j].step, at |-> "toolLogs"])]
            /\ phase' = "settled"
       ELSE IF response = "falsy"
       THEN /\ StopEarly(j)
            /\ output' = [output EXCEPT
                            !.log = Append(Logged(j, "falsy response"), [op |-> "log error",
                                           step |-> job[j].step, at |-> phase])]
            /\ phase' = "cleanup"
       ELSE TaskThrows(j, response)
  /\ UNCHANGED <<workerQueue, workerActive>>
  /\ TaskFrame

\* The try block of lines 146-174: writeResponseFiles, once or twice.  Its
\* error is logged and the job stops.  Otherwise the user journeys are
\* generated when configured, else the build starts.
WriteFiles(j) ==
  /\ TaskAt(j, "write")
  /\ \E ok \in BOOLEAN :
       IF ~ok
       THEN /\ StopEarly(j)
            /\ output' = [output EXCEPT
                            !.log = Append(Logged(j, "write failed"), [op |-> "log error",
                                           step |-> job[j].step, at |-> phase])]
            /\ phase' = "cleanup"
            /\ UNCHANGED <<workerQueue, workerActive>>
       ELSE /\ output' = [output EXCEPT !.log = Logged(j, "write")]
            /\ IF input.enableUserJourneyTesting
               THEN /\ phase' = "journeys"
                    /\ UNCHANGED <<job, finalizeCalls, workerQueue, workerActive>>
               ELSE TaskStartsBuild(j)
  /\ TaskFrame

\* assert(cujGenerationLlm) and await generateUserJourneysForApp(...)   (lines 179-194)
GenerateJourneys(j) ==
  /\ TaskAt(j, "journeys")
  /\ \E settles \in {"ok"} \cup Thrown :
       IF settles = "ok"
       THEN /\ TaskStartsBuild(j)
            /\ UNCHANGED output
       ELSE /\ TaskThrows(j, settles)
            /\ UNCHANGED <<workerQueue, workerActive>>
  /\ TaskFrame

\* await attemptBuildAndTest(...) settles (lines 200-218): with an attempt,
\* with nothing (cleanup and break), or with an error of either kind.
BuildStep(j) ==
  /\ TaskAt(j, "build")
  /\ CurrentEval(j) \in workerActive
  /\ WorkerRelease(CurrentEval(j))
  /\ \E attempt \in {"attempt", "nothing"} \cup Thrown :
       IF attempt = "attempt"
       THEN /\ job' = [job EXCEPT ![j].pc = "rate"]
            /\ output' = [output EXCEPT !.log = Logged(j, "build")]
            /\ phase' = "rate"
            /\ UNCHANGED finalizeCalls
       ELSE IF attempt = "nothing"
       THEN /\ StopEarly(j)
            /\ output' = [output EXCEPT !.log = Logged(j, "no attempt")]
            /\ phase' = "cleanup"
       ELSE TaskThrows(j, attempt)
  /\ TaskFrame

\* await rateGeneratedCode(...) and results.push(...) (lines 220-254), then the
\* next pass of the loop, or lines 257-258.
RateStep(j) ==
  /\ TaskAt(j, "rate")
  /\ \E rated \in {"ok"} \cup Thrown :
       IF rated # "ok"
       THEN TaskThrows(j, rated)
       ELSE /\ output' = [output EXCEPT
                            !.log = Append(Logged(j, "rate"), [op |-> "result",
                                           step |-> job[j].step, at |-> phase])]
            /\ IF job[j].step < Len(DefsToExecute(promptsToProcess[j]))
               THEN /\ job' = [job EXCEPT ![j].pc = "gen", ![j].step = @ + 1,
                                          ![j].res = TaskResults(j, job[j].step)]
                    /\ phase' = "prompt"
                    /\ UNCHANGED finalizeCalls
               ELSE /\ Finish(j)
                    /\ phase' = "cleanup"
  /\ UNCHANGED <<workerQueue, workerActive>>
  /\ TaskFrame

\* An awaited cleanup() settles (lines 142, 172, 216, 257).
TaskCleanupSettles(j) ==
  /\ TaskAt(j, "cleanup")
  /\ \E threw \in {"no"} \cup Thrown :
       /\ CleanupSettled(j, threw)
       /\ output' = [output EXCEPT
                       !.log = Logged(j, IF threw = "no" THEN "cleanup" ELSE ThrowOp(threw))]
       /\ phase' = IF threw = "no" /\ job[j].exit = "break" THEN "cleanup" ELSE "settled"
  /\ UNCHANGED <<workerQueue, workerActive>>
  /\ TaskFrame

\* callWithTimeout rejects with a TimeoutError while the task awaits an
\* operation: setupProjectStructure, an operation of a step, or cleanup().
\* The task is left behind at the operation it awaits.
TaskTimesOut(j) ==
  /\ j \in Jobs
  /\ job[j].pc \in TaskPcs
  /\ TimeOutAttempt(j, phase)
  /\ output' = [output EXCEPT !.log = Logged(j, "timeout")]
  /\ phase' = "settled"
  /\ UNCHANGED <<workerQueue, workerActive>>
  /\ TaskFrame

\* An entry of the log made by a task left behind.
LeftEntry(t, op) == [op |-> op, step |-> t.step, at |-> t.at]

\* A task left behind goes on as LeftBehindGoesOn says; what it does is added
\* to the log as long as the log is the one of its call.
LeftBehindDoes(j, t, entries, next, setUp, cleanedUp) ==
  /\ LeftBehindGoesOn(j, t, next, setUp, cleanedUp)
  /\ output' = IF StillCurrent(j, t)
               THEN [output EXCEPT !.log = @ \o entries]
               ELSE output

\* The operation awaited by a task that a timeout left behind settles, and
\* the task runs on to its next await, operation by operation as TaskSetup,
\* RenderPrompt, ResolveContext, GenerateFiles, WriteFiles, GenerateJourneys,
\* BuildStep, RateStep and TaskCleanupSettles describe (index.ts lines 97-258).
\* Its rejection and its results reach nobody.
LeftBehindOperation(j) ==
  /\ j \in Jobs
  /\ \E t \in job[j].left :
       LET id == <<j, t.attempt>>
           throws == \E thrown \in Thrown :
                       LeftBehindDoes(j, t, <<LeftEntry(t, ThrowOp(thrown))>>, {},
                                      FALSE, FALSE)
           stopEarly == {[t EXCEPT !.at = "cleanup", !.exit = "break"]}
           startsBuild(entries) ==
             /\ LeftBehindDoes(j, t, entries, {[t EXCEPT !.at = "build"]}, FALSE, FALSE)
             /\ SubmitHeavyOperation(id)
       IN CASE t.at = "setup" ->
                 /\ \E ok \in BOOLEAN :
                      IF ok
                      THEN LeftBehindDoes(j, t, <<>>, {[t EXCEPT !.at = "prompt"]}, TRUE, FALSE)
                      ELSE throws
                 /\ UNCHANGED <<workerQueue, workerActive>>
            [] t.at = "prompt" ->
                 /\ \E ok \in BOOLEAN :
                      IF ok
                      THEN LeftBehindDoes(j, t, <<LeftEntry(t, "render")>>,
                                          {[t EXCEPT !.at = "context"]}, FALSE, FALSE)
                      ELSE throws
                 /\ UNCHANGED <<workerQueue, workerActive>>
            [] t.at = "context" ->
                 /\ \E ok \in BOOLEAN :
                      IF ok
                      THEN LeftBehindDoes(j, t, <<>>, {[t EXCEPT !.at = "generate"]},
                                          FALSE, FALSE)
                      ELSE throws
                 /\ UNCHANGED <<workerQueue, workerActive>>
            [] t.at = "generate" ->
                 /\ \E response \in {"files", "nothing", "falsy", "throws"} :
                      IF response = "files"
                      THEN LeftBehindDoes(j, t, <<LeftEntry(t, "generate")>>,
                                          {[t EXCEPT !.at = "write"]}, FALSE, FALSE)
                      ELSE IF response = "nothing"
                      THEN LeftBehindDoes(j, t,
                                          <<LeftEntry(t, "no response"),
                                            [op |-> "throw", step |-> t.step,
                                             at |-> "toolLogs"]>>,
                                          {}, FALSE, FALSE)
                      ELSE IF response = "falsy"
                      THEN LeftBehindDoes(j, t, <<LeftEntry(t, "falsy response"),
                                                 LeftEntry(t, "log error")>>,
                                          stopEarly, FALSE, TRUE)
                      ELSE throws
                 /\ UNCHANGED <<workerQueue, workerActive>>
            [] t.at = "write" ->
                 \E ok \in BOOLEAN :
                   IF ~ok
                   THEN /\ LeftBehindDoes(j, t, <<LeftEntry(t, "write failed"),
                                                  LeftEntry(t, "log error")>>,
                                          stopEarly, FALSE, TRUE)
                        /\ UNCHANGED <<workerQueue, workerActive>>
                   ELSE IF input.enableUserJourneyTesting
                   THEN /\ LeftBehindDoes(j, t, <<LeftEntry(t, "write")>>,
                                          {[t EXCEPT !.at = "journeys"]}, FALSE, FALSE)
                        /\ UNCHANGED <<workerQueue, workerActive>>
                   ELSE startsBuild(<<LeftEntry(t, "write")>>)
            [] t.at = "journeys" ->
                 \E ok \in BOOLEAN :
                   IF ok
                   THEN startsBuild(<<>>)
                   ELSE /\ throws
                        /\ UNCHANGED <<workerQueue, workerActive>>
            [] t.at = "build" ->
                 /\ id \in workerActive
                 /\ WorkerRelease(id)
                 /\ \E attempt \in {"attempt", "nothing", "throws"} :
                      IF attempt = "attempt"
                      THEN LeftBehindDoes(j, t, <<LeftEntry(t, "build")>>,
                                          {[t EXCEPT !.at = "rate"]}, FALSE, FALSE)
                      ELSE IF attempt = "nothing"
                      THEN LeftBehindDoes(j, t, <<LeftEntry(t, "no attempt")>>,
                                          stopEarly, FALSE, TRUE)
                      ELSE throws
            [] t.at = "rate" ->
                 /\ \E rated \in {"ok", "throws"} :
                      IF rated = "throws"
                      THEN throws
                      ELSE IF t.step < Len(DefsToExecute(promptsToProcess[j]))
                      THEN LeftBehindDoes(j, t, <<LeftEntry(t, "rate"),
                                                 LeftEntry(t, "result")>>,
                                          {[t EXCEPT !.at = "prompt", !.step = @ + 1]},
                                          FALSE, FALSE)
                      ELSE LeftBehindDoes(j, t, <<LeftEntry(t, "rate"),
                                                 LeftEntry(t, "result")>>,
                                          {[t EXCEPT !.at = "cleanup", !.exit = "return"]},
                                          FALSE, TRUE)
                 /\ UNCHANGED <<workerQueue, workerActive>>
            [] t.at = "cleanup" ->
                 /\ \E threw \in BOOLEAN :
                      IF threw
                      THEN throws
                      ELSE IF t.exit = "break"
                      THEN LeftBehindDoes(j, t, <<LeftEntry(t, "cleanup")>>,
                                          {[t EXCEPT !.exit = "afterBreak"]}, FALSE, TRUE)
                      ELSE LeftBehindDoes(j, t, <<LeftEntry(t, "cleanup")>>, {},
                                          FALSE, FALSE)
                 /\ UNCHANGED <<workerQueue, workerActive>>
  /\ UNCHANGED <<finalizeCalls, phase>>
  /\ TaskFrame

NextTask ==
  \/ \E j \in Jobs : TaskSetup(j)
  \/ \E j \in Jobs : RenderPrompt(j)
  \/ \E j \in Jobs : ResolveContext(j)
  \/ \E j \in Jobs : GenerateFiles(j)
  \/ \E j \in Jobs : WriteFiles(j)
  \/ \E j \in Jobs : GenerateJourneys(j)
  \/ \E j \in Jobs : BuildStep(j)
  \/ \E j \in Jobs : RateStep(j)
  \/ \E j \in Jobs : TaskCleanupSettles(j)
  \/ \E j \in Jobs : TaskTimesOut(j)
  \/ \E j \in Jobs : FinalizeEval(j)
  \/ \E j \in Jobs : TaskInitEval(j)
  \/ \E j \in Jobs : LeftBehindOperation(j)

SpecTask == InitTask /\ [][NextTask]_vars

\* ---------------------------------------------------------------------
\* installChrome and its module-level chromeInstallPromise
\* (src/unnamed/part_002 lines 327-344)
\* ---------------------------------------------------------------------
Callers == 1..MaxCallers

\* Bug variant of NeedsInstall: every call starts the command.
NeedsInstall_Always(promise) == TRUE

\* !chromeInstallPromise   (line 333)
NeedsInstall(promise) == promise.state = "null"

\* How a call ends once the promise it awaits has settled: `catch {}` swallows
\* a rejection (lines 341-343).
AwaitOutcome(state) == "returned"

\* The module is loaded: chromeInstallPromise is null and nothing has called
\* installChrome.
InitChrome ==
  /\ Start([promptTimeoutRetries |-> <<>>, concurrency |-> [auto |-> FALSE, value |-> 1]],
           1, <<>>, FALSE)
  /\ input = <<>>
  /\ output = [chromeInstallPromise |-> [state |-> "null", id |-> 0],
               commands |-> 0,
               callers |-> [c \in Callers |-> [pc |-> "idle", awaits |-> 0]]]
  /\ phase = "loaded"
  /\ idx = 0

\* A call of installChrome runs up to its await: executeCommand is started when
\* no promise is stored, and the stored promise is awaited (lines 333-342).
CallInstallChrome(c) ==
  /\ phase = "loaded"
  /\ output.callers[c].pc = "idle"
  /\ LET start == NeedsInstall(output.chromeInstallPromise)
         promise == IF start
                    THEN [state |-> "pending", id |-> output.commands + 1]
                    ELSE output.chromeInstallPromise
     IN output' = [chromeInstallPromise |-> promise,
                   commands |-> IF start THEN output.commands + 1 ELSE output.commands,
                   callers |-> [output.callers EXCEPT
                                  ![c] = [pc |-> "awaiting", awaits |-> promise.id]]]
  /\ UNCHANGED <<input, phase, idx, runVars>>

\* `npx puppeteer browsers install chrome` ends: the promise of the command
\* settles.
CommandSettles ==
  /\ phase = "loaded"
  /\ output.chromeInstallPromise.state = "pending"
  /\ \E state \in {"fulfilled", "rejected"} :
       output' = [output EXCEPT !.chromeInstallPromise.state = state]
  /\ UNCHANGED <<input, phase, idx, runVars>>

\* The await of a call resumes, and the call ends (lines 341-344).
InstallChromeResumes(c) ==
  /\ phase = "loaded"
  /\ output.callers[c].pc = "awaiting"
  /\ output.chromeInstallPromise.state \in {"fulfilled", "rejected"}
  /\ output' = [output EXCEPT
                  !.callers[c].pc = AwaitOutcome(output.chromeInstallPromise.state)]
  /\ UNCHANGED <<input, phase, idx, runVars>>

NextChrome ==
  \/ \E c \in Callers : CallInstallChrome(c)
  \/ CommandSettles
  \/ \E c \in Callers : InstallChromeResumes(c)

SpecChrome == InitChrome /\ [][NextChrome]_vars

\* ---------------------------------------------------------------------
\* The auxiliary runners of a run: auto-rater, user-journey generator and
\* summary generator (src/unnamed/part_002 lines 87-109), the assertion of
\* startEvaluationTask on the user-journey generator (src/runner/index.ts
\* lines 179-180) and their disposal.  A runner is the number of the
\* construction that made it; 0 is null.
\* ---------------------------------------------------------------------
RatingKinds == {"PER_BUILD", "LLM_BASED"}

\* A prompt with its ratings: the kinds used by a single prompt, or by each step
\* of a multi-step prompt.
RatedPrompts ==
  [kind : {"single"}, ratings : SUBSET RatingKinds]
    \cup {[kind |-> "multi", steps |-> st] :
            st \in UNION {[1..m -> SUBSET RatingKinds] : m \in 1..MaxSteps}}

\* promptsToProcess.some(p => p.kind === 'single' ? p.ratings.some(...)
\*                                               : p.steps.some(s => s.ratings.some(...)))
HasLlmBasedRatings(prompts) ==
  \E i \in 1..Len(prompts) :
    IF prompts[i].kind = "single"
    THEN "LLM_BASED" \in prompts[i].ratings
    ELSE \E s \in 1..Len(prompts[i].steps) : "LLM_BASED" \in prompts[i].steps[s]

\* Bug variant of Coalesce: the right operand is never used.
Coalesce_First(a, b) == a

\* Bug variant of Coalesce: the right operand is always used.
Coalesce_Second(a, b) == b

\* a ?? b
Coalesce(a, b) == IF a # 0 THEN a ELSE b

\* The run has resolved its prompts and is about to construct its runners.
InitRunners ==
  /\ Start([promptTimeoutRetries |-> <<>>, concurrency |-> [auto |-> FALSE, value |-> 1]],
           1, <<>>, FALSE)
  /\ input \in [promptsToProcess : SeqsUpTo(RatedPrompts, MaxPrompts),
                enableUserJourneyTesting : BOOLEAN,
                skipAiSummary : BOOLEAN]
  /\ output = [autoraterLlm |-> 0, cujGenerationLlm |-> 0, generateAiSummaryLlm |-> 0,
               constructed |-> 0, disposeCalls |-> <<0, 0, 0>>, assertion |-> "none",
               assertedIn |-> {}]
  /\ phase = "autoraterLlm"
  /\ idx = 0

\* `wanted ? (existing ?? (await getRunnerByName('ai-sdk'))) : null`: the runner
\* is constructed only when the left operand of ?? is null, and the import of
\* the runner's module may fail.
GetRunner(field, wanted, existing, next) ==
  /\ phase = field
  /\ IF ~wanted
     THEN /\ output' = [output EXCEPT ![field] = 0]
          /\ phase' = next
     ELSE LET created == output.constructed + 1
              runner == Coalesce(existing, created)
          IN IF runner # created
             THEN /\ output' = [output EXCEPT ![field] = runner]
                  /\ phase' = next
             ELSE \E ok \in BOOLEAN :
                    IF ok
                    THEN /\ output' = [output EXCEPT ![field] = runner,
                                                     !.constructed = created]
                         /\ phase' = next
                    ELSE /\ phase' = "threw"
                         /\ UNCHANGED output
  /\ UNCHANGED <<input, idx, runVars>>

\* line 97
GetAutoraterLlm ==
  GetRunner("autoraterLlm", HasLlmBasedRatings(input.promptsToProcess), 0,
            "cujGenerationLlm")

\* lines 98-100
GetCujGenerationLlm ==
  GetRunner("cujGenerationLlm", input.enableUserJourneyTesting, output.autoraterLlm,
            "generateAiSummaryLlm")

\* lines 101-103
GetGenerateAiSummaryLlm ==
  GetRunner("generateAiSummaryLlm", ~input.skipAiSummary,
            Coalesce(output.autoraterLlm, output.cujGenerationLlm), "task")

\* A call of startEvaluationTask reaches line 179 of index.ts: its
\* setupProjectStructure, prompts, generateInitialFiles and writeResponseFiles
\* succeeded (lines 97-176).  With user-journey testing enabled it evaluates
\* the assertion of line 180 on the cujGenerationLlm it was called with, the
\* value of lines 98-100.  Whether and when a call gets that far depends on
\* the executor: it happens while the run awaits its units, and, for a call
\* that a timeout of callWithTimeout has left behind, also while the cleanup
\* function disposes of the runners and after it has done so; dispose() does
\* not change the reference.  assertedIn records when the assertion was
\* evaluated.  A run without prompts throws before any unit (part_002 line
\* 118).
AssertCujGenerationLlm ==
  /\ phase \in {"task", "cleanup", "done"}
  /\ ~HasNoPrompts(input.promptsToProcess)
  /\ IF input.enableUserJourneyTesting
     THEN output' = [output EXCEPT
                       !.assertion = IF output.cujGenerationLlm # 0 /\ @ # "failed"
                                     THEN "passed" ELSE "failed",
                       !.assertedIn = @ \cup {phase}]
     ELSE UNCHANGED output
  /\ UNCHANGED <<input, phase, idx, runVars>>

\* The try block of generateCodeAndAssess is left, by its return or by an
\* error, and the finally block calls cleanup() (part_002 lines 284-289), which
\* calls the function pushed at lines 105-109.
CleanupRunners ==
  /\ phase = "task"
  /\ phase' = "cleanup"
  /\ UNCHANGED <<input, output, idx, runVars>>

\* The cleanup function pushed at lines 105-109 runs its three statements, one
\* at a time: `await ref?.dispose()` calls dispose through the reference unless
\* it is null, and the function goes on once the call has settled.  dispose()
\* of the AI SDK runner is an empty async function (ai-sdk-runner.ts line 129).
DisposeRunners ==
  /\ phase = "cleanup"
  /\ idx \in 0..2
  /\ LET refs == <<output.autoraterLlm, output.cujGenerationLlm,
                   output.generateAiSummaryLlm>>
         r == refs[idx + 1]
     IN output' = IF r = 0 THEN output
                  ELSE [output EXCEPT !.disposeCalls[r] = @ + 1]
  /\ idx' = idx + 1
  /\ phase' = IF idx = 2 THEN "done" ELSE "cleanup"
  /\ UNCHANGED <<input, runVars>>

NextRunners ==
  \/ GetAutoraterLlm
  \/ GetCujGenerationLlm
  \/ GetGenerateAiSummaryLlm
  \/ AssertCujGenerationLlm
  \/ CleanupRunners
  \/ DisposeRunners

SpecRunners == InitRunners /\ [][NextRunners]_vars

\* ---------------------------------------------------------------------
\* prepareSummary (src/runner/orchestration/generate-summary.ts lines 12-132)
\* ---------------------------------------------------------------------
ZeroUsage == [inputTokens |-> 0, outputTokens |-> 0, thinkingTokens |-> 0, totalTokens |-> 0]

UsageValues ==
  {[inputTokens |-> 1, outputTokens |-> 1, thinkingTokens |-> 0, totalTokens |-> 2],
   [inputTokens |-> 2, outputTokens |-> 1, thinkingTokens |-> 1, totalTokens |-> 4]}

\* An optional usage: <<>> when the field is absent, <<u>> when it is u.
OptionalUsages == {<<>>} \cup {<<u>> : u \in UsageValues}

\* An AssessmentResult as far as prepareSummary reads it: score.tokenUsage and
\* the usage of each entry of attemptDetails.
Assessments ==
  [tokenUsage : OptionalUsages,
   attemptDetails : SeqsUpTo(OptionalUsages, MaxAttemptDetails)]

\* Bug variant of AddUsage: the thinking tokens are not added.
AddUsage_NoThinking(total, usage) ==
  [inputTokens |-> total.inputTokens + usage.inputTokens,
   outputTokens |-> total.outputTokens + usage.outputTokens,
   thinkingTokens |-> total.thinkingTokens,
   totalTokens |-> total.totalTokens + usage.totalTokens]

\* The four `+=` on the counters (lines 28-31, 37-40, 50-53, 85-88).
AddUsage(total, usage) ==
  [inputTokens |-> total.inputTokens + usage.inputTokens,
   outputTokens |-> total.outputTokens + usage.outputTokens,
   thinkingTokens |-> total.thinkingTokens + usage.thinkingTokens,
   totalTokens |-> total.totalTokens + usage.totalTokens]

\* `if (x.usage) { ... += ... }` over a list of optional usages, in order.
RECURSIVE AddOptionalUsages(_, _)
AddOptionalUsages(total, usages) ==
  IF usages = <<>>
  THEN total
  ELSE AddOptionalUsages(
         IF Head(usages) = <<>> THEN total ELSE AddUsage(total, Head(usages)[1]),
         Tail(usages))

\* assessments.forEach(result => ...)   (lines 25-43)
RECURSIVE AddAssessments(_, _)
AddAssessments(total, assessments) ==
  IF assessments = <<>>
  THEN total
  ELSE AddAssessments(
         AddOptionalUsages(total, <<Head(assessments).tokenUsage>>
                                    \o Head(assessments).attemptDetails),
         Tail(assessments))

\* env.analysisPrompts.map(...) has started one chatWithReportAI call per
\* configured prompt when there is a runner and a prompt (lines 66-69).
StartAnalyses(out) ==
  IF input.generateAiSummaryLlm /\ Len(input.analysisPrompts) > 0
  THEN [out EXCEPT !.phase = "analysis",
                   !.calls = [i \in 1..Len(input.analysisPrompts) |->
                                [state |-> "pending", usage |-> ZeroUsage]]]
  ELSE [out EXCEPT !.phase = "executorInfo"]

\* prepareSummary has been called with the results of the run.
InitSummary ==
  /\ Start([promptTimeoutRetries |-> <<>>, concurrency |-> [auto |-> FALSE, value |-> 1]],
           1, <<>>, FALSE)
  /\ input \in [generateAiSummaryLlm : BOOLEAN,
                assessments : SeqsUpTo(Assessments, MaxPrompts),
                analysisPrompts : {[i \in 1..n |-> i] : n \in 0..MaxAnalysisPrompts},
                getExecutorInfo : {"resolves", "rejects", "undefined"}]
  /\ output = [phase |-> "called", usage |-> ZeroUsage, aiSummary |-> "undefined",
               summaryCall |-> [state |-> "none", usage |-> ZeroUsage],
               calls |-> <<>>, additionalAiAnalysis |-> <<>>]
  /\ phase = "summary"
  /\ idx = 0

\* The synchronous start of prepareSummary: the usage of the results is added
\* up, and summarizeReportWithAI is called when there is a runner (lines 21-49).
AggregateUsage ==
  /\ phase = "summary"
  /\ output.phase = "called"
  /\ LET out == [output EXCEPT !.usage = AddAssessments(ZeroUsage, input.assessments)]
     IN output' = IF input.generateAiSummaryLlm
                  THEN [out EXCEPT !.phase = "aiSummary", !.summaryCall.state = "pending"]
                  ELSE StartAnalyses(out)
  /\ UNCHANGED <<input, phase, idx, runVars>>

\* summarizeReportWithAI settles (lines 49-62), and the analysis calls are
\* started (lines 65-69).
AiSummarySettles ==
  /\ phase = "summary"
  /\ output.phase = "aiSummary"
  /\ \E ok \in BOOLEAN, usage \in UsageValues :
       output' = StartAnalyses(
                   IF ok
                   THEN [output EXCEPT !.usage = AddUsage(@, usage),
                                       !.aiSummary = "responseHtml",
                                       !.summaryCall = [state |-> "fulfilled", usage |-> usage]]
                   ELSE [output EXCEPT !.summaryCall.state = "rejected"])
  /\ UNCHANGED <<input, phase, idx, runVars>>

\* The chatWithReportAI call of analysis prompt i settles (lines 71-97).
AnalysisSettles(i) ==
  /\ phase = "summary"
  /\ output.phase = "analysis"
  /\ i \in 1..Len(output.calls)
  /\ output.calls[i].state = "pending"
  /\ \E ok \in BOOLEAN, usage \in UsageValues :
       output' = IF ok
                 THEN [output EXCEPT
                         !.usage = AddUsage(@, usage),
                         !.additionalAiAnalysis = Append(@, input.analysisPrompts[i]),
                         !.calls[i] = [state |-> "fulfilled", usage |-> usage]]
                 ELSE [output EXCEPT !.calls[i].state = "rejected"]
  /\ UNCHANGED <<input, phase, idx, runVars>>

\* Promise.all resolves once every call has settled (line 69).
AnalysesSettled ==
  /\ phase = "summary"
  /\ output.phase = "analysis"
  /\ \A i \in 1..Len(output.calls) : output.calls[i].state # "pending"
  /\ output' = [output EXCEPT !.phase = "executorInfo"]
  /\ UNCHANGED <<input, phase, idx, runVars>>

\* `await env.executor.getExecutorInfo?.()` settles (line 101) and the
\* RunSummary is built (lines 103-131).  The executor is an input of
\* prepareSummary: its getExecutorInfo resolves with the info, rejects (and
\* prepareSummary rejects with that error), or is not defined, in which case
\* the optional call yields undefined and reading `executorInfo.id` at line 127
\* throws a TypeError.  In both failures no summary is returned and the usage
\* added up so far is lost.
ReturnSummary ==
  /\ phase = "summary"
  /\ output.phase = "executorInfo"
  /\ output' = [output EXCEPT !.phase =
                  CASE input.getExecutorInfo = "resolves" -> "returned"
                    [] input.getExecutorInfo = "rejects" -> "rejected"
                    [] input.getExecutorInfo = "undefined" -> "TypeError"]
  /\ UNCHANGED <<input, phase, idx, runVars>>

NextSummary ==
  \/ AggregateUsage
  \/ AiSummarySettles
  \/ \E i \in 1..MaxAnalysisPrompts : AnalysisSettles(i)
  \/ AnalysesSettled
  \/ ReturnSummary

SpecSummary == InitSummary /\ [][NextSummary]_vars

\* ---------------------------------------------------------------------
\* Vocabulary of the properties
\* ---------------------------------------------------------------------
\* k: the configured number of timeout retries (0 when the option is absent).
Retries ==
  IF options.promptTimeoutRetries = <<>> THEN 0 ELSE options.promptTimeoutRetries[1]

\* Positions of the failed-prompts entries of unit j.
FailedEntries(j) == {i \in 1..Len(failedPrompts) : failedPrompts[i].job = j}

\* EvalIDs that initializeEval returned to unit j.
EvalsOf(j) == {id \in initCalls : id[1] = j}

\* The results list holds every result of list l.
Contains(list, l) == \A s \in 1..Len(l) : \E i \in 1..Len(list) : list[i] = l[s]

\* Unit j leaves the wait for finalizeEval in this step.
AttemptHandled(j) == job[j].pc = "finalize" /\ job'[j].pc # "finalize"

\* The step appends exactly one failed-prompts entry, for unit j with error e.
RecordsFailure(j, e) ==
  failedPrompts' = Append(failedPrompts,
                          [promptName |-> promptsToProcess[j].name, job |-> j, error |-> e])

\* ---------------------------------------------------------------------
\* C1: with promptTimeoutRetries = k >= 0, a unit whose attempts all time out
\* makes exactly k+1 attempts; the last timeout records the prompt once in
\* failedPrompts with an empty result; no unit rejects, and a returned RunInfo
\* holds the results of all units.
\* ---------------------------------------------------------------------
C1_StateTimeoutExhaustion ==
  Retries >= 0 =>
    /\ \A j \in Jobs :
         /\ Cardinality(FailedEntries(j)) <= 1
         /\ \A i \in FailedEntries(j) :
              failedPrompts[i].error = "timeout" =>
                /\ job[j].pc = "done"
                /\ Cardinality(EvalsOf(j)) <= Retries + 1
                /\ job[j].attemptIdx = Retries
                /\ job[j].res = <<>>
         /\ job[j].pc # "threw"
    /\ settled # "UnexpectedCodePath"
    /\ settled = "returned" => \A j \in Jobs : Contains(results, job[j].res)

C1_StepLastTimeout ==
  \A j \in Jobs :
    (Retries >= 0 /\ AttemptHandled(j) /\ job[j].outcome = "timeout"
       /\ job[j].attemptIdx = Retries)
      => /\ job'[j].pc = "done"
         /\ job'[j].res = <<>>
         /\ RecordsFailure(j, "timeout")

C1_TimeoutExhaustion == [](C1_StateTimeoutExhaustion) /\ [][C1_StepLastTimeout]_vars

C1_Witness ==
  /\ Retries = 1
  /\ settled = "returned"
  /\ Len(results) >= 1
  /\ \E i \in 1..Len(failedPrompts) :
       /\ failedPrompts[i].error = "timeout"
       /\ Cardinality(EvalsOf(failedPrompts[i].job)) = 2


\* ---------------------------------------------------------------------
\* C2: retry policy.  An attempt is followed by another one iff it failed with
\* a timeout and fewer than k+1 attempts have been made; a non-timeout error
\* is never retried and is recorded at once as one failedPrompts entry with an
\* empty result; a successful attempt ends the loop without an entry.  A
\* timeout is a rejection of evaluate() with a TimeoutError, whether the
\* per-prompt deadline raised it or an operation the attempt awaits threw it.
\* ---------------------------------------------------------------------
C2_StepRetryPolicy ==
  \A j \in Jobs :
    /\ AttemptHandled(j) =>
         /\ job'[j].pc \in {"init", "done"}
         /\ (job'[j].pc = "init")
              <=> (job[j].outcome = "timeout" /\ job[j].attemptIdx + 1 < Retries + 1)
         /\ job'[j].pc = "init" =>
              /\ job'[j].attemptIdx = job[j].attemptIdx + 1
              /\ failedPrompts' = failedPrompts
         /\ job[j].outcome = "error" =>
              /\ job'[j].pc = "done"
              /\ job'[j].res = <<>>
              /\ RecordsFailure(j, "error")
         /\ job[j].outcome = "ok" =>
              /\ job'[j].pc = "done"
              /\ failedPrompts' = failedPrompts
    \* initializeEval itself failed: with a TimeoutError the attempt is retried
    \* while attempts are left, every other error is recorded at once
    /\ (job[j].pc = "init" /\ (job'[j].pc \notin {"init", "setup"}
                                \/ job'[j].attemptIdx # job[j].attemptIdx)) =>
         \/ /\ job'[j].pc = "init"
            /\ job'[j].attemptIdx = job[j].attemptIdx + 1
            /\ job[j].attemptIdx + 1 < Retries + 1
            /\ failedPrompts' = failedPrompts
         \/ /\ job'[j].pc = "done"
            /\ job'[j].res = <<>>
            /\ \/ RecordsFailure(j, "error")
               \/ RecordsFailure(j, "timeout") /\ job[j].attemptIdx = Retries

C2_RetryPolicy == [][C2_StepRetryPolicy]_vars

C2_Witness ==
  /\ Retries = 1
  /\ \E j \in Jobs : job[j].attemptIdx = 1 /\ job[j].pc = "gen"
  /\ \E i \in 1..Len(failedPrompts) :
       /\ failedPrompts[i].error = "error"
       /\ job[failedPrompts[i].job].attemptIdx = 0
       /\ EvalsOf(failedPrompts[i].job) # {}

\* ---------------------------------------------------------------------
\* C3: partial-failure isolation.  A failed prompt leaves its unit fulfilled
\* with an empty list; the all-tasks signal is never aborted while a unit is
\* executing; a rejection of the run never stems from an attempt's outcome;
\* and a returned RunInfo holds exactly the results of the units.
\* ---------------------------------------------------------------------
RECURSIVE TotalResults(_)
TotalResults(n) == IF n = 0 THEN 0 ELSE TotalResults(n - 1) + Len(job[n].res)

C3_FailureIsolation ==
  /\ \A j \in Jobs : FailedEntries(j) # {} => (job[j].pc = "done" /\ job[j].res = <<>>)
  /\ allTasksAborted => \A j \in Jobs : job[j].pc \notin RunningPcs
  /\ pending = "UnexpectedCodePath" => (failedPrompts = <<>> /\ initCalls = {})
  /\ settled = "returned" =>
       /\ \A j \in Jobs : job[j].pc = "done" /\ Contains(results, job[j].res)
       /\ Len(results) = TotalResults(Len(promptsToProcess))

C3_Witness ==
  /\ settled = "returned"
  /\ \E i \in 1..Len(failedPrompts) : failedPrompts[i].error = "error"
  /\ \E i \in 1..Len(failedPrompts) : failedPrompts[i].error = "timeout"

\* ---------------------------------------------------------------------
\* C4: every EvalID returned by initializeEval is passed to finalizeEval
\* exactly once, when its attempt has settled and before the unit calls
\* initializeEval again; an error of finalizeEval does not change what the
\* attempt settled with.
\* ---------------------------------------------------------------------
C4_StateFinalizedOnce ==
  /\ \A id \in EvalIDs :
       /\ finalizeCalls[id] <= 1
       /\ finalizeCalls[id] = 1 => id \in initCalls
  /\ \A id \in initCalls :
       finalizeCalls[id] = 0
         <=> (job[id[1]].pc \in TaskPcs /\ job[id[1]].attemptIdx = id[2])
  /\ \A j \in Jobs :
       job[j].pc \in {"init", "done"} => \A id \in EvalsOf(j) : finalizeCalls[id] = 1

C4_StepOutcomeKept ==
  \A j \in Jobs :
    AttemptHandled(j) =>
      /\ job[j].outcome = "ok" =>
           /\ job'[j].pc = "done"
           /\ job'[j].res = job[j].res
           /\ failedPrompts' = failedPrompts
      /\ (job[j].outcome # "ok" /\ job'[j].pc = "done") => RecordsFailure(j, job[j].outcome)
      /\ job[j].outcome = "timeout" => failedPrompts' \in {failedPrompts,
             Append(failedPrompts, [promptName |-> promptsToProcess[j].name, job |-> j,
                                    error |-> "timeout"])}

C4_FinalizeExactlyOnce == [](C4_StateFinalizedOnce) /\ [][C4_StepOutcomeKept]_vars

C4_Witness ==
  \E j \in Jobs :
    /\ job[j].pc = "done"
    /\ job[j].res # <<>>
    /\ Cardinality(EvalsOf(j)) = 2
    /\ \A id \in EvalsOf(j) : finalizeCalls[id] = 1

\* ---------------------------------------------------------------------
\* C5: whenever generateCodeAndAssess settles, env.destroy has been called and
\* every registered cleanup function has been called, whether or not
\* env.destroy threw; the promise settles with the RunInfo or the error the
\* try block produced, never with an error of the cleanup.
\* ---------------------------------------------------------------------
RunErrors == {"InvalidModel", "RunnerCreation", "NoPrompts", "McpServerHost", "InvalidConcurrency",
              "UnexpectedCodePath", "SummaryFailure"}

C5_CleanupAlwaysRuns ==
  settled # "no" =>
    /\ envDestroyCalls >= 1
    /\ cleanupFnCalls >= extraCleanupFns
    /\ pending # "none"
    /\ settled = "returned" <=> pending = "RunInfo"
    /\ settled # "returned" => (settled = pending /\ settled \in RunErrors)

C5_Witness ==
  /\ settled = "SummaryFailure"
  /\ callerAborted
  /\ extraCleanupFns = 1
  /\ cleanupFnCalls >= 1

\* ---------------------------------------------------------------------
\* C6: the results of the run are in ascending order of prompt name, and
\* results with equal names are in the order in which their prompts (and
\* steps) were scheduled, whatever the order in which the units completed.
\* ---------------------------------------------------------------------
NameBefore(a, b) == LocaleCompare(a, b) < 0

ScheduledBefore(r, q) == r.job < q.job \/ (r.job = q.job /\ r.step < q.step)

C6_SortedStable ==
  \A i, k \in 1..Len(results) :
    i < k =>
      \/ NameBefore(results[i].name, results[k].name)
      \/ (results[i].name = results[k].name /\ ScheduledBefore(results[i], results[k]))

C6_Witness ==
  /\ pc = "summary"
  /\ Len(results) = 3
  /\ results[1].job = 2 /\ results[1].step = 2
  /\ results[2].job = 1
  /\ results[3].job = 2 /\ results[3].step = 1
  /\ Len(failedPrompts) = 0

\* ---------------------------------------------------------------------
\* C7: the number of units in execution, and the number of EvalIDs that are
\* initialized and not yet finalized, never exceed the outer pool size; a unit
\* keeps its slot while it retries.
\* ---------------------------------------------------------------------
LiveEvals ==
  {id \in initCalls : job[id[1]].attemptIdx = id[2] /\ job[id[1]].pc \in RunningPcs}

C7_OuterPoolBound ==
  /\ Cardinality({j \in Jobs : job[j].pc \notin {"idle", "queued", "done", "threw"}})
       <= AppConcurrency(options, parallelism)
  /\ Cardinality(LiveEvals) <= AppConcurrency(options, parallelism)

C7_Witness ==
  /\ Queued # {}
  /\ Cardinality(LiveEvals) = AppConcurrency(options, parallelism)
  /\ \E id \in LiveEvals : id[2] = 1

\* ---------------------------------------------------------------------
\* C9: with an empty list of prompts to process the run never schedules a
\* unit and never returns; initializeEval is not called; once validation and
\* runner construction are passed the error is the "no prompts" one; and the
\* run-level cleanup has run when the promise settles.
\* ---------------------------------------------------------------------
C9_EmptyPromptsFatal ==
  Len(promptsToProcess) = 0 =>
    /\ pc \notin {"schedule", "await", "onEmpty", "summary"}
    /\ initCalls = {}
    /\ settled # "returned"
    /\ pending \in {"none", "InvalidModel", "RunnerCreation", "NoPrompts"}
    /\ (extraCleanupFns = 1 /\ pc # "resolve") => pending = "NoPrompts"
    /\ settled # "no" => (envDestroyCalls >= 1 /\ cleanupFnCalls >= extraCleanupFns)

C9_Witness ==
  /\ Len(promptsToProcess) = 0
  /\ settled = "NoPrompts"
  /\ cleanupFnCalls = 1

\* ---------------------------------------------------------------------
\* C10: if the caller's abort signal fires before any unit has completed
\* (or is already aborted at the call), the run rejects instead of returning
\* a RunInfo.
\* ---------------------------------------------------------------------
C10_EarlyAbortRejects == abortedEarly => settled # "returned"


\* ---------------------------------------------------------------------
\* C8: with an outer pool of 4 and automatic inner sizing, at most 2 build/test
\* operations hold a slot of the inner pool at any time, also while all four
\* units are in their build stage.
\* ---------------------------------------------------------------------
C8_InnerPoolBound ==
  (options.concurrency.auto /\ AppConcurrency(options, parallelism) = 4)
    => Cardinality(workerActive) <= 2

C8_Witness ==
  /\ options.concurrency.auto
  /\ AppConcurrency(options, parallelism) = 4
  /\ \A j \in Jobs : job[j].pc = "build"
  /\ Cardinality(Jobs) = 4
  /\ Cardinality(workerActive) = 2
  /\ Len(workerQueue) = 2

\* ---------------------------------------------------------------------
\* C11: when the caller's signal fires while attempts are executing, the
\* signal handed to each of them is aborted, and once such an attempt's
\* startEvaluationTask has settled its EvalID has been finalized and the
\* cleanup of its project directory has been called.
\* ---------------------------------------------------------------------
C11_AbortCleansUpJobs ==
  \A j \in Jobs :
    (job[j].sawAbort /\ job[j].pc = "finalize" /\ job[j].outcome # "timeout") =>
      /\ CombinedSignalAborted(allTasksAborted, FALSE, callerAborted)
      /\ finalizeCalls[CurrentEval(j)] = 1
      /\ job[j].project => job[j].cleanups >= 1

\* ---------------------------------------------------------------------
\* C12: with no prompt filter, the shuffled list is a permutation of the
\* resolved candidates (none duplicated, none lost), and with a limit L >= 0
\* the evaluated prompts are min(L, N) distinct members of the N candidates.
\* ---------------------------------------------------------------------
ResolvedCandidates ==
  LocalFilter(input.executablePrompts, input.localMode, input.localOutput)

Ids(list) == {list[i].id : i \in 1..Len(list)}

Members(list) == {list[i] : i \in 1..Len(list)}

C12_ShuffleThenTruncate ==
  (phase \in {"shuffle", "slice", "done"} /\ NoPromptFilter(input.promptFilter)) =>
    /\ Cardinality(Ids(output)) = Len(output)
    /\ Members(output) \subseteq Members(ResolvedCandidates)
    /\ phase # "done" => Len(output) = Len(ResolvedCandidates)
    /\ (phase = "done" /\ input.limit # <<>> /\ input.limit[1] >= 0) =>
         Len(output) = IF input.limit[1] < Len(ResolvedCandidates)
                       THEN input.limit[1] ELSE Len(ResolvedCandidates)

C12_Witness ==
  /\ phase = "done"
  /\ NoPromptFilter(input.promptFilter)
  /\ Len(ResolvedCandidates) = 3
  /\ input.limit = <<2>>
  /\ Len(output) = 2
  /\ output[1].id = 3
  /\ output[2].id = 1

\* ---------------------------------------------------------------------
\* C13: with a non-empty prompt filter the candidates are exactly the resolved
\* prompts whose name contains the filter, in the catalog's relative order,
\* and the evaluated prompts are the first `limit` of them.
\* ---------------------------------------------------------------------
MatchingResolved ==
  {i \in 1..Len(ResolvedCandidates) :
     Includes(ResolvedCandidates[i].name, input.promptFilter[1])}

C13_FilterKeepsOrder ==
  (phase \in {"slice", "done"} /\ ~NoPromptFilter(input.promptFilter)) =>
    /\ \A i, k \in 1..Len(output) : i < k => output[i].id < output[k].id
    /\ Members(output) \subseteq {ResolvedCandidates[i] : i \in MatchingResolved}
    /\ (phase = "slice" \/ input.limit = <<>>) => Len(output) = Cardinality(MatchingResolved)
    /\ (phase = "done" /\ input.limit # <<>> /\ input.limit[1] >= 0) =>
         /\ Len(output) = IF input.limit[1] < Cardinality(MatchingResolved)
                          THEN input.limit[1] ELSE Cardinality(MatchingResolved)
         /\ \A i \in MatchingResolved :
              ResolvedCandidates[i] \notin Members(output) =>
                \A k \in 1..Len(output) : output[k].id < ResolvedCandidates[i].id

C13_Witness ==
  /\ phase = "done"
  /\ input.promptFilter = << <<2>> >>
  /\ input.limit = <<1>>
  /\ Len(input.executablePrompts) = 3
  /\ input.executablePrompts[1].name = <<1>>
  /\ Cardinality(MatchingResolved) = 2
  /\ output = <<[name |-> <<1, 2>>, id |-> 2]>>

\* ---------------------------------------------------------------------
\* C14: in local mode every candidate has a directory of cached output for
\* this environment, whatever the cache holds, also when the environment has
\* no cache directory at all.
\* ---------------------------------------------------------------------
C14_LocalCandidatesCached ==
  (phase \in {"order", "shuffle", "slice", "done"} /\ input.localMode) =>
    \A i \in 1..Len(output) :
      input.localOutput # <<>> /\ output[i].name \in input.localOutput[1]

\* ---------------------------------------------------------------------
\* C15: the rating hash of a list of ratings is the hash of every
\* permutation of the list, the categories' point budgets being the same.
\* ---------------------------------------------------------------------
Rearrangements(n) == {f \in [1..n -> 1..n] : \A i, k \in 1..n : f[i] = f[k] => i = k}

C15_HashOrderIndependent ==
  phase \in {"validate", "constructed"} =>
    \A f \in Rearrangements(Len(output.ratings)) :
      GetRatingHash([i \in 1..Len(output.ratings) |-> output.ratings[f[i]]],
                    output.ratingCategories) = output.ratingHash

C15_Witness ==
  /\ phase = "constructed"
  /\ Len(output.ratings) = 3
  /\ output.ratings[1].category = "low-impact"
  /\ output.ratings[2].category = "high-impact"
  /\ output.ratings[2].id = <<Chr.b>>
  /\ output.ratings[3].category = "high-impact"
  /\ output.ratings[3].id = <<Chr.a>>
  /\ output.ratings[3].groupingLabels # <<>>

\* ---------------------------------------------------------------------
\* C16: the canonical string of a rating holds its grouping labels in sorted
\* order, so reordering the groupingLabels of a rating leaves the rating hash
\* as it is.
\* ---------------------------------------------------------------------
Reversed(list) == [i \in 1..Len(list) |-> list[Len(list) + 1 - i]]

C16_LabelOrderIrrelevant ==
  phase \in {"validate", "constructed"} =>
    \A i \in 1..Len(output.ratings) :
      output.ratings[i].groupingLabels # <<>> =>
        GetRatingHash([output.ratings EXCEPT
                         ![i].groupingLabels = <<Reversed(@[1])>>],
                      output.ratingCategories) = output.ratingHash

\* ---------------------------------------------------------------------
\* C17: when expectedRatingHash is set and is not the hash of the ratings
\* with rating and category overrides applied, the constructor throws the
\* user-facing error that names the expected and the actual hash; when it is
\* that hash or is not set, the check lets the construction pass.
\* ---------------------------------------------------------------------
ResolvedHash == GetRatingHash(ResolveRatings(input).ratings, GetRatingCategories(input))

ExpectationSet == input.expectedRatingHash # <<>> /\ input.expectedRatingHash[1] # <<>>

C17_ExpectedHashChecked ==
  (phase \in {"constructed", "failed"} /\ ResolveRatings(input).ok) =>
    IF ExpectationSet /\ input.expectedRatingHash[1] # ResolvedHash
    THEN /\ phase = "failed"
         /\ output.error = [kind |-> "RatingHashMismatch",
                            expected |-> input.expectedRatingHash[1],
                            actual |-> ResolvedHash]
    ELSE phase = "constructed"

C17_Witness ==
  /\ phase = "failed"
  /\ output.error.kind = "RatingHashMismatch"
  /\ input.ratingOverrides # <<>>
  /\ input.categoryOverrides = <<>>
  /\ output.error.expected =
       GetRatingHash(input.ratings, GetRatingCategories(input))

\* ---------------------------------------------------------------------
\* C18: whatever the order in which the directory lists its entries, the
\* resolved steps are the listed files in ascending order of the number
\* parsed from the file name.
\* ---------------------------------------------------------------------
FileNumber(name) == ParseInt(MatchStep(name)[1])

C18_StepsAscending ==
  phase = "resolved" =>
    /\ \A i, k \in 1..Len(output.steps) :
         i < k => FileNumber(output.steps[i].path) <= FileNumber(output.steps[k].path)
    /\ {output.steps[i].path : i \in 1..Len(output.steps)}
         = {input.entities[i].name : i \in 1..Len(input.entities)}
    /\ Len(output.steps) = Len(input.entities)

C18_Witness ==
  /\ phase = "resolved"
  /\ Len(input.entities) = 3
  /\ input.entities[1].name = StepPrefix \o <<50>>
  /\ input.entities[2].name = StepPrefix \o <<49>>
  /\ input.entities[3].name = StepPrefix \o <<51>>
  /\ output.steps[1].path = StepPrefix \o <<49>>
  /\ output.steps[2].path = StepPrefix \o <<50>>
  /\ output.steps[3].path = StepPrefix \o <<51>>

\* ---------------------------------------------------------------------
\* C19: a multi-step prompt directory resolves only if it is non-empty and
\* every entry is a file named step-<number>; an empty directory fails with a
\* user-facing error, and a directory with an entry of another name fails
\* with a user-facing error that names an offending entry.
\* ---------------------------------------------------------------------
Offending(entity) == ~entity.isFile \/ MatchStep(entity.name) = <<>>

Finished == phase \in {"resolved", "failed"} /\ input.isDirectory

ResolvesOnlyWellFormed ==
  phase = "resolved" =>
    /\ Len(input.entities) > 0
    /\ \A i \in 1..Len(input.entities) : ~Offending(input.entities[i])

EmptyDirectoryFails ==
  Len(input.entities) = 0 =>
    phase = "failed" /\ output.error.kind = "UserFacingError"

C19_MalformedEntryNamed ==
  Finished =>
    /\ ResolvesOnlyWellFormed
    /\ EmptyDirectoryFails
    /\ (\E i \in 1..Len(input.entities) : MatchStep(input.entities[i].name) = <<>>) =>
         /\ phase = "failed"
         /\ output.error.kind = "UserFacingError"
         /\ \E i \in 1..Len(input.entities) :
              Offending(input.entities[i]) /\ output.error.names = <<input.entities[i].name>>

\* C19, amended: the error names the first offending entry of the listing,
\* unless a file numbered 0 comes before it; the directory is then rejected
\* with the error about step-1, which names no entry.
FirstOffending ==
  CHOOSE i \in 1..Len(input.entities) :
    Offending(input.entities[i]) /\ \A k \in 1..(i - 1) : ~Offending(input.entities[k])

C19_FirstMalformedEntryNamed ==
  Finished =>
    /\ ResolvesOnlyWellFormed
    /\ EmptyDirectoryFails
    /\ (\E i \in 1..Len(input.entities) : Offending(input.entities[i])) =>
         /\ phase = "failed"
         /\ output.error.kind = "UserFacingError"
         /\ IF \E k \in 1..(FirstOffending - 1) : FileNumber(input.entities[k].name) = 0
            THEN output.error.names = <<>>
            ELSE output.error.names = <<input.entities[FirstOffending].name>>

C19_Witness ==
  /\ phase = "failed"
  /\ Len(input.entities) = 3
  /\ ~Offending(input.entities[1])
  /\ input.entities[2].isFile
  /\ MatchStep(input.entities[2].name) = <<>>
  /\ output.error.names = <<input.entities[2].name>>
  /\ output.steps # <<>>

\* ---------------------------------------------------------------------
\* C20: a multi-step prompt that resolves has 1 as the number of its first
\* step; a directory whose lowest step number is 0, or 2 and above, is
\* rejected.
\* ---------------------------------------------------------------------
C20_StepsStartAtOne ==
  phase = "resolved" => FileNumber(output.steps[1].path) = 1

\* ---------------------------------------------------------------------
\* C21: a call of startEvaluationTask that returns (does not throw) returns
\* one AssessmentResult per step of its prompt: 1 for a single prompt, N for a
\* prompt of N steps.
\* ---------------------------------------------------------------------
TaskReturned(j) == job[j].pc = "finalize" /\ job[j].outcome = "ok"

C21_OneResultPerStep ==
  \A j \in Jobs :
    TaskReturned(j) => Len(job[j].res) = Len(DefsToExecute(promptsToProcess[j]))

\* ---------------------------------------------------------------------
\* C22: a job that ended because generation gave no response, because the
\* files could not be written, or because its last attempt timed out, has its
\* prompt in failedPrompts, and the other jobs have not been aborted.
\* ---------------------------------------------------------------------
LogHas(ops) == \E i \in 1..Len(output.log) : output.log[i].op \in ops

C22_JobFailuresRecorded ==
  \A j \in Jobs :
    (job[j].pc = "done" /\ LogHas({"no response", "write failed", "timeout"})) =>
      /\ \E k \in 1..Len(failedPrompts) : failedPrompts[k].job = j
      /\ ~allTasksAborted

\* ---------------------------------------------------------------------
\* C23: each job obtains exactly one EvalID, whose lifetime spans all the
\* timeout retries of its prompt.
\* ---------------------------------------------------------------------
C23_OneEvalPerJob == \A j \in Jobs : Cardinality(EvalsOf(j)) <= 1

\* The attempts of unit j whose initializeEval has settled, and those among
\* them in which it returned an EvalID.
AttemptsBegun(j) == 0..(Len(output.inits) - 1)

AttemptsInitialized(j) == {a \in AttemptsBegun(j) : output.inits[a + 1] = "ok"}

\* C23, amended: each attempt of a job calls initializeEval once and, when
\* the call returns, has an EvalID of its own.  initializeEval has settled
\* once for every attempt made so far; the EvalIDs of the job are exactly
\* those of the attempts in which it returned, none for an attempt in which
\* it rejected; an EvalID is finalized once when its attempt has settled and
\* not before, and nothing is finalized for an attempt without an EvalID; and
\* a further attempt is made only after a TimeoutError, while attempts are
\* left.
C23_OneEvalPerAttempt ==
  \A j \in Jobs :
    /\ Len(output.inits) = job[j].attemptIdx + (IF job[j].pc = "init" THEN 0 ELSE 1)
    /\ EvalsOf(j) = {<<j, a>> : a \in AttemptsInitialized(j)}
    /\ \A a \in 0..MaxRetries :
         finalizeCalls[<<j, a>>] =
           (IF a \in AttemptsInitialized(j)
                 /\ (a < job[j].attemptIdx \/ job[j].pc \notin TaskPcs)
            THEN 1 ELSE 0)
    /\ job[j].pc \in TaskPcs \cup {"finalize"} => CurrentEval(j) \in initCalls
    /\ job[j].attemptIdx > 0 =>
         /\ job[j].attemptIdx < MaxAttempts(options)
         /\ \A a \in 0..(job[j].attemptIdx - 1) :
              output.inits[a + 1] \in {"ok", "timeout"}
         /\ job[j].pc = "init" => LogHas({"timeout", "throw TimeoutError"})
    /\ (job[j].pc = "done" /\ job[j].attemptIdx = 0) =>
         Cardinality(EvalsOf(j)) = (IF output.inits[1] = "ok" THEN 1 ELSE 0)

C23_Witness ==
  \E j \in Jobs :
    /\ job[j].pc = "done"
    /\ Cardinality(EvalsOf(j)) = 2
    /\ \A id \in EvalsOf(j) : finalizeCalls[id] = 1
    /\ Len(job[j].res) = Len(DefsToExecute(promptsToProcess[j]))

\* ---------------------------------------------------------------------
\* C24: however many calls of installChrome are made, and in whatever order
\* they run, the install command is started at most once, every call awaits
\* the promise of that one command, and no call is rejected, whether the
\* command succeeds or fails.
\* ---------------------------------------------------------------------
C24_InstallOnce ==
  phase = "loaded" =>
    /\ output.commands <= 1
    /\ \A c \in Callers :
         /\ output.callers[c].pc # "rejected"
         /\ output.callers[c].pc # "idle" =>
              output.callers[c].awaits = 1 /\ output.chromeInstallPromise.id = 1

C24_Witness ==
  /\ phase = "loaded"
  /\ output.chromeInstallPromise.state = "rejected"
  /\ output.commands = 1
  /\ \E c, d \in Callers :
       /\ c # d
       /\ output.callers[c].pc = "returned"
       /\ output.callers[d].pc = "awaiting"
  /\ \A c \in Callers : output.callers[c].pc # "idle"

\* ---------------------------------------------------------------------
\* C25: the outer pool has the explicit concurrency value, or the largest
\* integer not above 0.8 * availableParallelism when concurrency is automatic;
\* the inner pool has the largest integer not above half the outer size when
\* concurrency is automatic, and no bound otherwise.
\* ---------------------------------------------------------------------
C25_PoolSizes ==
  LET outer == AppConcurrency(options, parallelism)
      inner == WorkerConcurrency(options, parallelism)
  IN IF options.concurrency.auto
     THEN /\ 10 * outer <= 8 * parallelism
          /\ 8 * parallelism < 10 * (outer + 1)
          /\ WorkerBounded(options)
          /\ 2 * inner <= outer
          /\ outer < 2 * (inner + 1)
     ELSE /\ outer = options.concurrency.value
          /\ ~WorkerBounded(options)

C25_Witness ==
  /\ pc = "await"
  /\ options.concurrency.auto
  /\ parallelism = MaxParallelism
  /\ AppConcurrency(options, parallelism) > WorkerConcurrency(options, parallelism)
  /\ Cardinality(Running) = AppConcurrency(options, parallelism)
  /\ Cardinality(workerActive) = WorkerConcurrency(options, parallelism)
  /\ workerQueue # <<>>

\* ---------------------------------------------------------------------
\* C26: when an error escapes the try block of generateCodeAndAssess, the
\* all-tasks signal is aborted before cleanup starts, cleanup runs to its
\* end, and then the promise rejects with that error; the run never aborts
\* the caller's signal, and a run that returns has never aborted the
\* all-tasks signal.
\* ---------------------------------------------------------------------
C26_StateAbortThenCleanup ==
  /\ pending \in RunErrors => allTasksAborted /\ pc \in {"destroying", "disposing", "end"}
  /\ pending \in {"none", "RunInfo"} => ~allTasksAborted
  /\ settled \notin {"no", "returned"} =>
       /\ settled = pending
       /\ allTasksAborted
       /\ pc = "end"
       /\ envDestroyCalls >= 1
       /\ cleanupFnCalls >= extraCleanupFns
  /\ settled = "returned" => ~allTasksAborted

C26_StepAbortThenCleanup ==
  /\ (allTasksAborted' /\ ~allTasksAborted) =>
       /\ pc \in {"validate", "resolve", "schedule", "await", "summary"}
       /\ pc' = "destroying"
       /\ pending' \in RunErrors
       /\ settled' = "no"
  /\ callerAborted' # callerAborted =>
       /\ pc' = pc
       /\ allTasksAborted' = allTasksAborted
       /\ settled' = settled

C26_AbortThenCleanupThenReject ==
  [](C26_StateAbortThenCleanup) /\ [][C26_StepAbortThenCleanup]_vars

C26_Witness ==
  /\ settled = "UnexpectedCodePath"
  /\ allTasksAborted
  /\ ~callerAborted
  /\ \E j \in Jobs : job[j].pc \notin {"done", "threw"}
  /\ cleanupFnCalls = 1

\* ---------------------------------------------------------------------
\* C27: once the caller's signal has fired, the signal given to every
\* long-running operation of the run has fired: the signal of each executing
\* job, and the signal of the summary generation and the analysis calls.
\* ---------------------------------------------------------------------
C27_CallerAbortReachesAll ==
  callerAborted =>
    /\ \A j \in Jobs :
         job[j].pc \in TaskPcs =>
           CombinedSignalAborted(allTasksAborted, FALSE, callerAborted)
    /\ pc = "summary" => SummarySignalAborted(allTasksAborted, callerAborted)

\* ---------------------------------------------------------------------
\* C28: when generation returns nothing for a step, startEvaluationTask does
\* not throw: it runs cleanup and returns the results of the steps completed
\* before.
\* ---------------------------------------------------------------------
StepOf(ops) == output.log[CHOOSE i \in 1..Len(output.log) : output.log[i].op \in ops].step

C28_NoResponseStopsQuietly ==
  \A j \in Jobs :
    (job[j].pc = "finalize" /\ phase = "settled" /\ LogHas({"no response"})
       /\ ~LogHas({"timeout"})) =>
      /\ job[j].outcome = "ok"
      /\ job[j].cleanups >= 1
      /\ Len(job[j].res) = StepOf({"no response"}) - 1

\* ---------------------------------------------------------------------
\* C29: a call of startEvaluationTask that has set up its project workspace
\* and has ended, by returning or by throwing, has called the workspace's
\* cleanup.
\* ---------------------------------------------------------------------
C29_CleanupOnEveryExit ==
  \A j \in Jobs :
    (job[j].pc = "finalize" /\ phase = "settled" /\ job[j].project
       /\ ~LogHas({"timeout"})) =>
      job[j].cleanups >= 1

\* ---------------------------------------------------------------------
\* C30: within a job the steps are processed one at a time in step order: a
\* step begins only after the result of the step before has been appended,
\* the returned results are the results of the first n steps in order, n
\* being the number of results appended, and after a step has stopped the
\* job nothing is rated for that step and no later step is begun.
\* ---------------------------------------------------------------------
StopOps == {"no response", "falsy response", "write failed", "no attempt"}

ResultsLogged == Cardinality({i \in 1..Len(output.log) : output.log[i].op = "result"})

\* What the call itself did: the log without the timeout of callWithTimeout,
\* which the call does not notice.
NotTimeout(entry) == entry.op # "timeout"

OwnLog == SelectSeq(output.log, NotTimeout)

C30_StepsInOrder ==
  \A j \in Jobs :
    (job[j].pc \in TaskPcs \cup {"finalize"} /\ phase \in TaskPhases \cup {"settled"}) =>
      LET log == OwnLog
      IN /\ \A i, k \in 1..Len(log) : i < k => log[i].step <= log[k].step
         /\ \A k \in 1..Len(log) :
              log[k].op = "render" =>
                IF log[k].step = 1
                THEN \A i \in 1..(k - 1) : log[i].op # "render"
                ELSE /\ log[k - 1].op = "result"
                     /\ log[k - 1].step = log[k].step - 1
         /\ \A i \in 1..Len(log) :
              log[i].op \in StopOps =>
                /\ \A k \in 1..Len(log) :
                     log[k].step = log[i].step => log[k].op \notin {"rate", "result"}
                /\ \A k \in (i + 1)..Len(log) :
                     /\ log[k].step = log[i].step
                     /\ log[k].op \in {"log error", "cleanup", "throw", "throw TimeoutError"}
                /\ phase \in {"cleanup", "settled"}
         /\ TaskReturned(j) =>
              /\ Len(job[j].res) = ResultsLogged
              /\ job[j].res = TaskResults(j, ResultsLogged)
              /\ ResultsLogged <= Len(DefsToExecute(promptsToProcess[j]))

C30_Witness ==
  \E j \in Jobs :
    /\ TaskReturned(j)
    /\ Len(DefsToExecute(promptsToProcess[j])) = 2
    /\ LogHas({"no attempt"})
    /\ StepOf({"no attempt"}) = 2
    /\ Len(job[j].res) = 1
    /\ job[j].res[1].step = 1

\* C31: whenever user-journey testing is enabled, the user-journey generator
\* handed to a job is present, so the assertion of startEvaluationTask
\* 'Expected a CUJ generation LLM to be available' never fails, whenever a
\* call evaluates it: it is evaluated only with the flag set and with units
\* scheduled, and every evaluation passes.
C31_CujLlmAvailable ==
  /\ output.assertion # "failed"
  /\ output.assertion = "passed" <=> output.assertedIn # {}
  /\ output.assertedIn # {} =>
       input.enableUserJourneyTesting /\ ~HasNoPrompts(input.promptsToProcess)
  /\ (phase \in {"task", "cleanup", "done"} /\ input.enableUserJourneyTesting)
       => output.cujGenerationLlm # 0

\* The assertion passed in a run without model-based ratings, where the
\* generator was constructed for the user journeys alone; it was evaluated
\* while the run awaited its units and again, by a call left behind, after the
\* runners had been disposed of.
C31_Witness ==
  /\ output.assertion = "passed"
  /\ output.assertedIn = {"task", "done"}
  /\ ~HasLlmBasedRatings(input.promptsToProcess)
  /\ output.autoraterLlm = 0
  /\ output.disposeCalls[output.cujGenerationLlm] >= 1

\* C32 (as stated): no auxiliary runner is constructed when no rating is
\* model-based, whatever the user-journey and AI-summary flags are.
C32_OnlyWithModelRatings ==
  ~HasLlmBasedRatings(input.promptsToProcess) => output.constructed = 0

\* C32 (amended): at most one auxiliary runner is constructed per run, and
\* once the three are resolved the auto-rater is present exactly when some
\* rating is model-based, the user-journey generator exactly when user-journey
\* testing is enabled and the summary generator exactly when the AI summary is
\* not skipped; a runner is constructed exactly when one of the three is wanted.
C32_ConstructedWhenWanted ==
  /\ output.constructed <= 1
  /\ phase \in {"task", "cleanup", "done"} =>
       /\ (output.autoraterLlm # 0) = HasLlmBasedRatings(input.promptsToProcess)
       /\ (output.cujGenerationLlm # 0) = input.enableUserJourneyTesting
       /\ (output.generateAiSummaryLlm # 0) = ~input.skipAiSummary
       /\ (output.constructed = 1) =
            (\/ HasLlmBasedRatings(input.promptsToProcess)
             \/ input.enableUserJourneyTesting
             \/ ~input.skipAiSummary)

\* Without a model-based rating, one runner was constructed and serves both the
\* user journeys and the AI summary.
C32_Witness ==
  /\ phase = "task"
  /\ ~HasLlmBasedRatings(input.promptsToProcess)
  /\ Len(input.promptsToProcess) > 0
  /\ output.constructed = 1
  /\ output.cujGenerationLlm = 1
  /\ output.generateAiSummaryLlm = 1

\* What the usage of the results and of the calls that succeeded adds up to,
\* for one counter.
RECURSIVE SumOver(_, _)
SumOver(f, usages) ==
  IF usages = <<>> THEN 0
  ELSE (IF Head(usages) = <<>> THEN 0 ELSE Head(usages)[1][f]) + SumOver(f, Tail(usages))

RECURSIVE ResultsTotal(_, _)
ResultsTotal(f, assessments) ==
  IF assessments = <<>> THEN 0
  ELSE SumOver(f, <<Head(assessments).tokenUsage>>)
         + SumOver(f, Head(assessments).attemptDetails)
         + ResultsTotal(f, Tail(assessments))

RECURSIVE CallsTotal(_, _)
CallsTotal(f, calls) ==
  IF calls = <<>> THEN 0
  ELSE (IF Head(calls).state = "fulfilled" THEN Head(calls).usage[f] ELSE 0)
         + CallsTotal(f, Tail(calls))

\* C33: the usage totals of the returned summary are the usage of the ratings
\* and attempts of all results plus the usage of each AI summary / analysis
\* call that succeeded; a failed call adds nothing and leaves aiSummary absent
\* or its entry missing, the other analyses still produce their entries, and
\* no failure of a call keeps prepareSummary from returning: it fails only
\* when the executor's getExecutorInfo rejects or is missing.
C33_UsageTotals ==
  /\ output.phase = "returned" =>
       /\ \A f \in {"inputTokens", "outputTokens", "thinkingTokens", "totalTokens"} :
            output.usage[f] = ResultsTotal(f, input.assessments)
                                + CallsTotal(f, <<output.summaryCall>> \o output.calls)
       /\ (output.aiSummary = "undefined") = (output.summaryCall.state # "fulfilled")
       /\ \A i \in 1..Len(output.calls) :
            (output.calls[i].state = "fulfilled")
              = (\E k \in 1..Len(output.additionalAiAnalysis) :
                   output.additionalAiAnalysis[k] = input.analysisPrompts[i])
       /\ Len(output.additionalAiAnalysis)
            = Cardinality({i \in 1..Len(output.calls) : output.calls[i].state = "fulfilled"})
  /\ output.phase \in {"called", "aiSummary", "analysis", "executorInfo", "returned",
                      "rejected", "TypeError"}
  /\ output.phase \in {"rejected", "TypeError"} => input.getExecutorInfo # "resolves"
  /\ (output.phase = "executorInfo" /\ input.getExecutorInfo = "resolves")
       => ENABLED ReturnSummary
  /\ (output.phase = "analysis" /\ \A i \in 1..Len(output.calls) :
                                     output.calls[i].state # "pending")
       => ENABLED AnalysesSettled

\* A summary was returned after the AI summary and one analysis failed and
\* another analysis succeeded, over results that carry usage.
C33_Witness ==
  /\ output.phase = "returned"
  /\ output.summaryCall.state = "rejected"
  /\ \E i, k \in 1..Len(output.calls) :
       output.calls[i].state = "rejected" /\ output.calls[k].state = "fulfilled"
  /\ ResultsTotal("thinkingTokens", input.assessments) > 0
  /\ output.usage.totalTokens > ResultsTotal("totalTokens", input.assessments)

\* C40: the entries of additionalAiAnalysis are in the order of the configured
\* analysisPrompts, whatever order the analysis calls complete in.
C40_AnalysesInConfiguredOrder ==
  \A k \in 1..(Len(output.additionalAiAnalysis) - 1) :
    output.additionalAiAnalysis[k] < output.additionalAiAnalysis[k + 1]

\* C34: with automatic concurrency, for every availableParallelism >= 1 both
\* pool sizes are at least 1, so both queues are constructed and the run does
\* not fail on its concurrency.
C34_AutoPoolsConstructible ==
  (options.concurrency.auto /\ parallelism >= 1) =>
    /\ pending # "InvalidConcurrency"
    /\ pc \in {"await", "onEmpty", "summary"} =>
         /\ AppConcurrency(options, parallelism) >= 1
         /\ WorkerConcurrency(options, parallelism) >= 1

\* C35: env.destroy is never started while an EvalID has been initialized and
\* not yet finalized, also when the caller aborts or the run fails.
C35_NoTeardownWhileInFlight ==
  [][envDestroyCalls' > envDestroyCalls =>
       \A id \in initCalls : finalizeCalls[id] >= 1]_vars

\* C36: one call of generateCodeAndAssess invokes env.destroy at most once and
\* each cleanup function (the disposal of the auxiliary runners) at most once,
\* also when the caller aborts during the run.
C36_CleanupAtMostOnce ==
  /\ envDestroyCalls <= 1
  /\ cleanupFnCalls <= extraCleanupFns

\* C37: one call of startEvaluationTask invokes the cleanup of its workspace at
\* most once, on every path.
C37_WorkspaceCleanupAtMostOnce ==
  \A j \in Jobs : job[j].cleanups <= 1

\* C38: for every value of promptTimeoutRetries, negative ones included, no
\* unit of work throws and the run never fails with 'Unexpected code path'.
C38_AtLeastOneAttempt ==
  /\ \A j \in Jobs : job[j].pc # "threw"
  /\ pending # "UnexpectedCodePath"
  /\ \A j \in Jobs : job[j].pc = "done" => (EvalsOf(j) # {} \/ FailedEntries(j) # {})

\* C39 (as stated): an attempt is re-run only if the per-prompt timeout of
\* that attempt expired; a TimeoutError raised before that deadline by an
\* operation the attempt awaits is handled like any other failure and is not
\* followed by a further attempt.
C39_RetryOnlyOnPromptTimeout ==
  \A j \in Jobs :
    (job[j].attemptIdx > 0 /\ job[j].pc = "init") => LogHas({"timeout"})

\* How the last attempt failed, read from its log: the deadline of
\* callWithTimeout passed, or the task rejected before it with a TimeoutError,
\* or with another error.
TimedOut == LogHas({"timeout"})

ThrewTimeoutError == ~TimedOut /\ LogHas({"throw TimeoutError"})

ThrewOther == ~TimedOut /\ LogHas({"throw"})

\* C39, amended: an attempt is re-run only after it failed with a
\* TimeoutError while attempts were left, whether the per-prompt deadline
\* raised it or an operation the attempt awaits rejected with it before that
\* deadline; a TimeoutError of either origin ends the unit, with a
\* failedPrompts entry, only when no attempt is left, and any other error
\* ends it with a failedPrompts entry whatever attempts are left.
C39_RetryOnTimeoutError ==
  \A j \in Jobs :
    /\ (job[j].attemptIdx > 0 /\ job[j].pc = "init") =>
         /\ TimedOut \/ ThrewTimeoutError
         /\ job[j].attemptIdx < MaxAttempts(options)
    /\ (job[j].pc = "done" /\ (TimedOut \/ ThrewTimeoutError)) =>
         /\ job[j].attemptIdx = MaxAttempts(options) - 1
         /\ failedPrompts = <<[promptName |-> promptsToProcess[j].name, job |-> j,
                               error |-> "timeout"]>>
    /\ (job[j].pc = "done" /\ ThrewOther) =>
         failedPrompts = <<[promptName |-> promptsToProcess[j].name, job |-> j,
                            error |-> "error"]>>

\* The rating of the first attempt rejected with a TimeoutError before the
\* per-prompt deadline, and the unit is about to make its second attempt.
C39_Witness ==
  \E j \in Jobs :
    /\ job[j].attemptIdx = 1
    /\ job[j].pc = "init"
    /\ output.inits = <<"ok">>
    /\ ~TimedOut
    /\ \E i \in 1..Len(output.log) :
         output.log[i].op = "throw TimeoutError" /\ output.log[i].at = "rate"

====
